---- MODULE Spec2Model ----
(***************************************************************************)
(* A model of the merge / pare engine of the Schemata class (ne-schemata). *)
(*                                                                         *)
(* A Schemata instance is a string of SDL plus an out-of-band resolver     *)
(* map.  mergeSDL and pareSDL parse the SDL of the receiver and of the     *)
(* source argument into two ASTs, mutate the left AST, print it and wrap   *)
(* the text in a new Schemata.  The conflict-resolver registry             *)
(* DefaultConflictResolvers is a module-level object shared by all calls.  *)
(***************************************************************************)
EXTENDS Integers, Sequences, FiniteSets

(***************************************************************************)
(* Values                                                                  *)
(***************************************************************************)

\* the absent value (null / undefined) wherever a map or config may be missing
Null == [absent |-> TRUE]

\* sub-collection name -> key of the resolver that settles its conflicts
subTypeResolverMap ==
  [fields     |-> "fieldMergeResolver",
   directives |-> "directiveMergeResolver",
   values     |-> "enumValueMergeResolver",
   types      |-> "typeValueMergeResolver",
   scalars    |-> "scalarMergeResolver"]

\* the five default resolver functions, by name, as the module first loads them
InitialConflictResolvers ==
  [fieldMergeResolver     |-> "DefaultFieldMergeResolver",
   directiveMergeResolver |-> "DefaultDirectiveMergeResolver",
   enumValueMergeResolver |-> "DefaultEnumMergeResolver",
   typeValueMergeResolver |-> "DefaultUnionMergeResolver",
   scalarMergeResolver    |-> "DefaultScalarMergeResolver"]

(***************************************************************************)
(* The four sub-node resolvers.  "KeepLeft" is a caller-supplied resolver  *)
(* that ignores the change by returning the left sub-node.                 *)
(***************************************************************************)
\* a field resolver that keeps the existing field
FieldResolverKeepingLeft(leftType, leftField, rightType, rightField) ==
  leftField

DefaultFieldMergeResolver(leftType, leftField, rightType, rightField) ==
  rightField

DefaultDirectiveMergeResolver(leftType, leftDirective, rightType, rightDirective) ==
  rightDirective

DefaultEnumMergeResolver(leftType, leftValue, rightType, rightValue) ==
  rightValue

DefaultUnionMergeResolver(leftType, leftUnion, rightType, rightUnion) ==
  rightUnion

DefaultScalarMergeResolver(leftScalar, leftConfig, rightScalar, rightConfig) ==
  IF rightConfig # Null THEN rightConfig ELSE leftConfig

KeepLeft(leftType, leftSub, rightType, rightSub) ==
  leftSub

\* calling the function stored under a registry key
CallResolver(fn, lType, lSub, rType, rSub) ==
  CASE fn = "DefaultFieldMergeResolver" ->
         DefaultFieldMergeResolver(lType, lSub, rType, rSub)
    [] fn = "DefaultDirectiveMergeResolver" ->
         DefaultDirectiveMergeResolver(lType, lSub, rType, rSub)
    [] fn = "DefaultEnumMergeResolver" ->
         DefaultEnumMergeResolver(lType, lSub, rType, rSub)
    [] fn = "DefaultUnionMergeResolver" ->
         DefaultUnionMergeResolver(lType, lSub, rType, rSub)
    [] fn = "DefaultScalarMergeResolver" ->
         DefaultScalarMergeResolver(lType, lSub, rType, rSub)
    [] OTHER -> KeepLeft(lType, lSub, rType, rSub)

(***************************************************************************)
(* SDL text and the AST (the parse / print collaborators of graphql 0.13). *)
(*                                                                         *)
(* A text is a sequence of printed definitions and a flag telling whether  *)
(* it holds any character at all (print always ends its output with a      *)
(* newline, so the print of an empty document is not the empty string).    *)
(* An AST node carries the collections its kind has: `props` is the set of *)
(* collection properties the parser put on the node; a collection outside  *)
(* `props` is undefined on the node.                                       *)
(***************************************************************************)
KindOfKeyword ==
  [type         |-> "ObjectTypeDefinition",
   extendType   |-> "ObjectTypeExtension",
   interface    |-> "InterfaceTypeDefinition",
   input        |-> "InputObjectTypeDefinition",
   enum         |-> "EnumTypeDefinition",
   union        |-> "UnionTypeDefinition",
   scalar       |-> "ScalarTypeDefinition"]

Keywords == DOMAIN KindOfKeyword

KeywordOfKind(kind) == CHOOSE k \in Keywords : KindOfKeyword[k] = kind

\* the main collection of a kind, besides directives ("none" for a scalar)
BodyProp(kind) ==
  CASE kind \in {"EnumTypeDefinition", "EnumTypeExtension"} -> "values"
    [] kind \in {"UnionTypeDefinition", "UnionTypeExtension"} -> "types"
    [] kind \in {"ScalarTypeDefinition", "ScalarTypeExtension"} -> "none"
    [] OTHER -> "fields"

SubKind(prop) ==
  CASE prop = "fields" -> "FieldDefinition"
    [] prop = "directives" -> "Directive"
    [] prop = "values" -> "EnumValueDefinition"
    [] OTHER -> "NamedType"

\* a parsed sub-node: its node kind, its name and the rest of what it says
SubNode(prop, p) == [kind |-> SubKind(prop), name |-> p.name, def |-> p.def]

printSub(s) == [name |-> s.name, def |-> s.def]

parseSubs(prop, ps) == [i \in 1..Len(ps) |-> SubNode(prop, ps[i])]

printSubs(ss) == [i \in 1..Len(ss) |-> printSub(ss[i])]

\* parse of one printed definition
parseDef(d) ==
  LET kind == KindOfKeyword[d.keyword]
      body == BodyProp(kind)
  IN  [kind       |-> kind,
       name       |-> d.name,
       props      |-> {"directives"} \cup (IF body = "none" THEN {} ELSE {body}),
       directives |-> parseSubs("directives", d.directives),
       fields     |-> IF body = "fields" THEN parseSubs("fields", d.body) ELSE <<>>,
       values     |-> IF body = "values" THEN parseSubs("values", d.body) ELSE <<>>,
       types      |-> IF body = "types" THEN parseSubs("types", d.body) ELSE <<>>]

\* the collection `prop` of a node (read it only when prop \in node.props)
Coll(node, prop) ==
  CASE prop = "fields" -> node.fields
    [] prop = "directives" -> node.directives
    [] prop = "values" -> node.values
    [] OTHER -> node.types

SetColl(node, prop, seq) ==
  CASE prop = "fields" -> [node EXCEPT !.fields = seq]
    [] prop = "directives" -> [node EXCEPT !.directives = seq]
    [] prop = "values" -> [node EXCEPT !.values = seq]
    [] OTHER -> [node EXCEPT !.types = seq]

\* print of one definition node: the printer writes what the node's kind has
printDef(n) ==
  LET body == BodyProp(n.kind)
  IN  [keyword    |-> KeywordOfKind(n.kind),
       name       |-> n.name,
       directives |-> printSubs(n.directives),
       body       |-> IF body = "none" THEN <<>> ELSE printSubs(Coll(n, body))]

\* gql.print(ast): the definitions joined, then a newline
gqlPrint(ast) ==
  [defs |-> [i \in 1..Len(ast.definitions) |-> printDef(ast.definitions[i])],
   chars |-> TRUE]

\* the empty string, the one falsy text
EmptyString == [defs |-> <<>>, chars |-> FALSE]

\* A GraphQLSchema is modelled by the definitions of its types, in the order
\* of its type map, and by the resolve functions its fields carry:
\*   [types |-> <<printed definition>>, resolve |-> type -> (field -> fn)].
isGraphQLSchema(v) == "types" \in DOMAIN v

\* the type names in the order localeCompare gives them
NameOrder == <<"Color", "Date", "Foo", "Pet", "Query">>

nameBefore(a, b) ==
  \E i, j \in 1..Len(NameOrder) :
    /\ NameOrder[i] = a /\ NameOrder[j] = b /\ i < j

\* Array.sort by name, as an insertion of each element in turn
RECURSIVE sortByName(_)
sortByName(defs) ==
  IF Len(defs) <= 1
    THEN defs
    ELSE LET rest   == sortByName(Tail(defs))
             d      == Head(defs)
             before == SelectSeq(rest, LAMBDA x : nameBefore(x.name, d.name))
             after  == SelectSeq(rest, LAMBDA x : ~ nameBefore(x.name, d.name))
         IN  before \o <<d>> \o after

\* printSchema(schema): the types sorted by name, each printed
printSchema(g) == [defs |-> sortByName(g.types), chars |-> TRUE]

\* a normalizeSource without the check of its argument: a falsy value reads
\* as the empty text
normalizeSourceUnchecked(typeDefs) ==
  IF typeDefs = EmptyString \/ typeDefs = Null
    THEN [error |-> "none", source |-> EmptyString]
  ELSE IF isGraphQLSchema(typeDefs)
    THEN [error |-> "none", source |-> printSchema(typeDefs)]
  ELSE [error |-> "none", source |-> typeDefs]

\* normalizeSource(typeDefs): throws on a falsy value (null, undefined, the
\* empty string), else the text of it
normalizeSource(typeDefs) ==
  IF typeDefs = EmptyString \/ typeDefs = Null
    THEN [error |-> "Error", source |-> EmptyString]
  ELSE IF isGraphQLSchema(typeDefs)
    THEN [error |-> "none", source |-> printSchema(typeDefs)]
  ELSE [error |-> "none", source |-> typeDefs]

\* Schemata.parse(sdl, false): null when normalizeSource throws or the text
\* does not parse (a document needs at least one definition); otherwise the
\* Document node
parse(sdl) ==
  LET norm == normalizeSource(sdl)
  IN  IF norm.error # "none" \/ Len(norm.source.defs) = 0
        THEN Null
        ELSE [definitions |->
                [i \in 1..Len(norm.source.defs) |->
                   parseDef(norm.source.defs[i])]]

\* rType.kind.substring(0, rType.kind.length - 9) + 'Definition', applied to
\* the kinds that end in 'Extension'
endsWithExtension(kind) ==
  kind \in {"ObjectTypeExtension", "InterfaceTypeExtension",
            "InputObjectTypeExtension", "EnumTypeExtension",
            "UnionTypeExtension", "ScalarTypeExtension"}

asDefinitionKind(kind) ==
  CASE kind = "ObjectTypeExtension" -> "ObjectTypeDefinition"
    [] kind = "InterfaceTypeExtension" -> "InterfaceTypeDefinition"
    [] kind = "InputObjectTypeExtension" -> "InputObjectTypeDefinition"
    [] kind = "EnumTypeExtension" -> "EnumTypeDefinition"
    [] kind = "UnionTypeExtension" -> "UnionTypeDefinition"
    [] OTHER -> "ScalarTypeDefinition"

(***************************************************************************)
(* Array helpers, with JavaScript's meaning.                               *)
(***************************************************************************)

\* a find that never finds
findNothing(seq, name) == 0

\* array.find(f => f.name.value == name): 1-based position of the first
\* element of that name, 0 when there is none
find(seq, name) ==
  IF \E i \in 1..Len(seq) : seq[i].name = name
    THEN CHOOSE i \in 1..Len(seq) :
           /\ seq[i].name = name
           /\ \A j \in 1..(i - 1) : seq[j].name # name
    ELSE 0

\* an indexOf that never finds its argument
indexOfNothing(seq, x) == -1

\* array.indexOf(x): zero-based index of the first occurrence, -1 when absent
indexOf(seq, x) ==
  IF \E i \in 1..Len(seq) : seq[i] = x
    THEN (CHOOSE i \in 1..Len(seq) :
            /\ seq[i] = x
            /\ \A j \in 1..(i - 1) : seq[j] # x) - 1
    ELSE -1

\* array.splice(index, 1, ...items): a negative index counts from the end
splice(seq, index, items) ==
  LET len   == Len(seq)
      start == IF index < 0
                 THEN (IF len + index < 0 THEN 0 ELSE len + index)
                 ELSE (IF index > len THEN len ELSE index)
      del   == IF len - start < 1 THEN len - start ELSE 1
  IN  SubSeq(seq, 1, start) \o items \o SubSeq(seq, start + del + 1, len)

(***************************************************************************)
(* combineTypeAndSubType: merges the collection subTypeName of rType into  *)
(* lType.  It works on a record [type, error, calls]: the left node as     *)
(* mutated so far, the error thrown ("none" while running) and the log of  *)
(* resolver invocations.                                                   *)
(***************************************************************************)
RECURSIVE combineLoop(_, _, _, _, _)
combineLoop(subTypeName, acc, rType, conflictResolvers, i) ==
  IF acc.error # "none" \/ i > Len(Coll(rType, subTypeName))
    THEN acc
    ELSE
      LET lType    == acc.type
          rSubType == Coll(rType, subTypeName)[i]
      IN  IF subTypeName \notin lType.props
            \* lType[subTypeName] is undefined: .find throws
            THEN [acc EXCEPT !.error = "TypeError"]
            ELSE
              LET at == find(Coll(lType, subTypeName), rSubType.name)
              IN  IF at = 0
                    THEN combineLoop(subTypeName,
                           [acc EXCEPT !.type = SetColl(lType, subTypeName,
                              Append(Coll(lType, subTypeName), rSubType))],
                           rType, conflictResolvers, i + 1)
                    ELSE
                      LET lSubType == Coll(lType, subTypeName)[at]
                          resolver == subTypeResolverMap[subTypeName]
                          resultingSubType ==
                            CallResolver(conflictResolvers[resolver],
                                         lType, lSubType, rType, rSubType)
                          call == [resolver |-> resolver,
                                   fn |-> conflictResolvers[resolver],
                                   lType |-> lType.name,
                                   lSubType |-> lSubType, rType |-> rType.name,
                                   rSubType |-> rSubType]
                      IN  IF "fields" \notin lType.props
                            \* lType.fields is undefined: .indexOf throws
                            THEN [acc EXCEPT !.error = "TypeError",
                                             !.calls = Append(@, call)]
                            ELSE
                              LET index == indexOf(lType.fields, lSubType)
                              IN  combineLoop(subTypeName,
                                    [acc EXCEPT
                                       !.type = SetColl(lType, subTypeName,
                                          splice(Coll(lType, subTypeName), index,
                                                 <<resultingSubType>>)),
                                       !.calls = Append(@, call)],
                                    rType, conflictResolvers, i + 1)

combineTypeAndSubType(subTypeName, acc, rType, conflictResolvers) ==
  IF acc.error # "none" \/ subTypeName \notin rType.props
    THEN acc
    ELSE combineLoop(subTypeName, acc, rType, conflictResolvers, 1)

(***************************************************************************)
(* normalizeSource and the schema getter.                                  *)
(***************************************************************************)

\* Object.assign(target, source) on objects with string keys
ObjectAssign(target, source) ==
  [k \in (DOMAIN target) \cup (DOMAIN source) |->
     IF k \in DOMAIN source THEN source[k] ELSE target[k]]

\* the schema getter: a GraphQLSchema when buildSchema accepts the text (it
\* needs a type named Query), null otherwise.  The schema is modelled by the
\* names of its scalar types, each holding a _scalarConfig.
schema(sdl) ==
  LET ast == parse(sdl)
  IN  IF ast = Null
           \/ ~ \E i \in 1..Len(ast.definitions) :
                  /\ ast.definitions[i].name = "Query"
                  /\ ast.definitions[i].kind = "ObjectTypeDefinition"
        THEN Null
        ELSE [scalars |-> {ast.definitions[i].name : i \in
                {j \in 1..Len(ast.definitions) :
                   ast.definitions[j].kind = "ScalarTypeDefinition"}}]

\* schema.getType(name)._scalarConfig, or null
scalarConfig(side, sch, name) ==
  IF sch # Null /\ name \in sch.scalars
    THEN [scalar |-> name, of |-> side]
    ELSE Null

(***************************************************************************)
(* mergeSDL.  The loop state is [definitions, error, calls, scalarFns]:    *)
(* lAST.definitions as mutated so far, the error thrown, the resolver      *)
(* invocations and the _scalarFns object.                                  *)
(***************************************************************************)
mergeType(st, at, rType, conflictResolvers, lSchema, rSchema) ==
  LET lType == st.definitions[at]
      acc0  == [type |-> lType, error |-> "none", calls |-> st.calls]
      put(acc) == [st EXCEPT !.definitions[at] = acc.type,
                             !.error = acc.error,
                             !.calls = acc.calls]
  IN  CASE lType.kind = "EnumTypeDefinition" ->
             put(combineTypeAndSubType("values",
                   combineTypeAndSubType("directives", acc0, rType,
                                         conflictResolvers),
                   rType, conflictResolvers))
        [] lType.kind = "UnionTypeDefinition" ->
             put(combineTypeAndSubType("types",
                   combineTypeAndSubType("directives", acc0, rType,
                                         conflictResolvers),
                   rType, conflictResolvers))
        [] lType.kind = "ScalarTypeDefinitionNode" ->
             LET acc == combineTypeAndSubType("directives", acc0, rType,
                                              conflictResolvers)
                 lScalarConfig == scalarConfig("left", lSchema, lType.name)
                 rScalarConfig == scalarConfig("right", rSchema, rType.name)
                 fn == conflictResolvers["scalarMergeResolver"]
                 resolver == CallResolver(fn, lType, lScalarConfig,
                                          rType, rScalarConfig)
                 call == [resolver |-> "scalarMergeResolver", fn |-> fn,
                          lType |-> lType.name, lSubType |-> lScalarConfig,
                          rType |-> rType.name, rSubType |-> rScalarConfig]
             IN  IF acc.error # "none"
                   THEN put(acc)
                   ELSE [put(acc) EXCEPT
                           !.calls = Append(@, call),
                           !.scalarFns = IF resolver # Null
                                           THEN @ \cup {lType.name} ELSE @]
        [] OTHER ->
             put(combineTypeAndSubType("fields",
                   combineTypeAndSubType("directives", acc0, rType,
                                         conflictResolvers),
                   rType, conflictResolvers))

\* a loop that pairs a source node only with a target node of its own kind
RECURSIVE mergeLoopMatchingKind(_, _, _, _, _, _)
mergeLoopMatchingKind(st, rDefs, i, conflictResolvers, lSchema, rSchema) ==
  IF st.error # "none" \/ i > Len(rDefs)
    THEN st
    ELSE
      LET same  == {k \in 1..Len(st.definitions) :
                      /\ st.definitions[k].name = rDefs[i].name
                      /\ st.definitions[k].kind = rDefs[i].kind}
          at    == IF same = {} THEN 0
                   ELSE CHOOSE k \in same : \A l \in same : k <= l
          rType == IF endsWithExtension(rDefs[i].kind)
                     THEN [rDefs[i] EXCEPT !.kind = asDefinitionKind(@)]
                     ELSE rDefs[i]
      IN  IF at = 0
            THEN mergeLoopMatchingKind(
                   [st EXCEPT !.definitions = Append(@, rType)],
                   rDefs, i + 1, conflictResolvers, lSchema, rSchema)
            ELSE mergeLoopMatchingKind(
                   mergeType(st, at, rType, conflictResolvers, lSchema, rSchema),
                   rDefs, i + 1, conflictResolvers, lSchema, rSchema)

\* a loop that puts a new source node in front of the target's definitions
RECURSIVE mergeLoopPrepending(_, _, _, _, _, _)
mergeLoopPrepending(st, rDefs, i, conflictResolvers, lSchema, rSchema) ==
  IF st.error # "none" \/ i > Len(rDefs)
    THEN st
    ELSE
      LET at    == find(st.definitions, rDefs[i].name)
          rType == IF endsWithExtension(rDefs[i].kind)
                     THEN [rDefs[i] EXCEPT !.kind = asDefinitionKind(@)]
                     ELSE rDefs[i]
      IN  IF at = 0
            THEN mergeLoopPrepending(
                   [st EXCEPT !.definitions = <<rType>> \o @],
                   rDefs, i + 1, conflictResolvers, lSchema, rSchema)
            ELSE mergeLoopPrepending(
                   mergeType(st, at, rType, conflictResolvers, lSchema, rSchema),
                   rDefs, i + 1, conflictResolvers, lSchema, rSchema)

RECURSIVE mergeLoop(_, _, _, _, _, _)
mergeLoop(st, rDefs, i, conflictResolvers, lSchema, rSchema) ==
  IF st.error # "none" \/ i > Len(rDefs)
    THEN st
    ELSE
      LET at    == find(st.definitions, rDefs[i].name)
          rType == IF endsWithExtension(rDefs[i].kind)
                     THEN [rDefs[i] EXCEPT !.kind = asDefinitionKind(@)]
                     ELSE rDefs[i]
      IN  IF at = 0
            THEN mergeLoop([st EXCEPT !.definitions = Append(@, rType)],
                           rDefs, i + 1, conflictResolvers, lSchema, rSchema)
            ELSE mergeLoop(mergeType(st, at, rType, conflictResolvers,
                                     lSchema, rSchema),
                           rDefs, i + 1, conflictResolvers, lSchema, rSchema)

\* this.mergeSDL(schemaLanguage, conflictResolvers), `registry` being the
\* module's DefaultConflictResolvers object at the time of the call.
\* Returns [error, merged, registry, calls]: the error thrown or "none", the
\* returned Schemata, the registry after the call, the resolver invocations.
mergeSDL(self, schemaLanguage, conflictResolvers, registry) ==
  LET norm == normalizeSource(schemaLanguage)
  IN  IF norm.error # "none"
        THEN [error |-> norm.error, merged |-> Null,
              registry |-> registry, calls |-> <<>>]
        ELSE
          LET lAST == parse(self.sdl)
              rAST == parse(norm.source)
              assigned == ObjectAssign(registry, conflictResolvers)
          IN  IF lAST = Null \/ rAST = Null
                \* rAST.definitions or lAST.definitions of null
                THEN [error |-> "TypeError", merged |-> Null,
                      registry |-> assigned, calls |-> <<>>]
                ELSE
                  LET after(st) ==
                        IF st.error # "none"
                          THEN [error |-> st.error, merged |-> Null,
                                registry |-> assigned, calls |-> st.calls]
                        ELSE IF st.scalarFns # {}
                          \* merged.schema may be null; _scalarConfig is not
                          \* defined anywhere
                          THEN [error |->
                                  IF schema(gqlPrint(
                                       [definitions |-> st.definitions])) = Null
                                    THEN "TypeError" ELSE "ReferenceError",
                                merged |-> Null,
                                registry |-> assigned, calls |-> st.calls]
                        ELSE [error |-> "none",
                              merged |-> [sdl |-> gqlPrint(
                                            [definitions |-> st.definitions]),
                                          resolvers |-> Null],
                              registry |-> assigned, calls |-> st.calls]
                  IN  after(mergeLoop(
                              [definitions |-> lAST.definitions,
                               error |-> "none", calls |-> <<>>,
                               scalarFns |-> {}],
                              rAST.definitions, 1, assigned,
                              schema(self.sdl), schema(norm.source)))

(***************************************************************************)
(* Resolver maps.  A resolver map is an object whose top-level keys hold   *)
(* either a resolver function (a flattened root field) or a per-type       *)
(* object of field resolvers:                                              *)
(*   [roots |-> key -> function, types |-> type name -> (field -> fn)].    *)
(* Object.assign({}, map) copies the top level only: the copy has its own  *)
(* set of keys, and shares every per-type object with the original.        *)
(***************************************************************************)
EmptyResolverMap == [roots |-> <<>>, types |-> <<>>]

TopLevelKeys(map) == (DOMAIN map.roots) \cup (DOMAIN map.types)

Restrict(f, keys) == [k \in (DOMAIN f) \cap keys |-> f[k]]

\* a delete that deletes nothing
WithoutNothing(f, key) == f

Without(f, key) == [k \in (DOMAIN f) \ {key} |-> f[k]]

\* has the map a resolver at [type][field]
HasResolver(map, type, field) ==
  /\ map # Null
  /\ type \in DOMAIN map.types
  /\ field \in DOMAIN map.types[type]

(***************************************************************************)
(* Resolvers bound to a schema: executableSchema and                       *)
(* stripResolversFromSchema.                                               *)
(***************************************************************************)
RootTypes == <<"Query", "Mutation", "Subscription">>

\* resolvers[key] for a top-level key of a resolver map
TopLevel(map, key) ==
  IF key \in DOMAIN map.roots THEN map.roots[key] ELSE map.types[key]

\* the definitions of a schema that have fields
fieldTypes(types) ==
  {i \in 1..Len(types) : types[i].keyword \in {"type", "interface", "input"}}

\* forEachField(schema, fn): the <<typeName, fieldName>> pairs fn is called
\* with, one for every field of every type of the schema that has fields
forEachField(g) ==
  UNION {{<<g.types[i].name, g.types[i].body[k].name>> :
            k \in 1..Len(g.types[i].body)} : i \in fieldTypes(g.types)}

\* isRootType(t) of the executableSchema getter
isRootType(g, typeName) ==
  /\ typeName \in {"Query", "Mutation", "Subscription"}
  /\ \E i \in 1..Len(g.types) :
       g.types[i].name = typeName /\ g.types[i].keyword = "type"

\* does the executableSchema getter put a resolve function on field f of
\* type T: it does when resolvers[T][f] is set, and on a root type also when
\* resolvers[f] is
bindsResolve(g, resolvers, T, f) ==
  /\ resolvers # Null
  /\ \/ T \in DOMAIN resolvers.types /\ f \in DOMAIN resolvers.types[T]
     \/ isRootType(g, T) /\ f \in TopLevelKeys(resolvers)

\* the function it puts there: resolvers[T][f] overrides resolvers[f]
resolveOf(g, resolvers, T, f) ==
  IF T \in DOMAIN resolvers.types /\ f \in DOMAIN resolvers.types[T]
    THEN resolvers.types[T][f]
    ELSE TopLevel(resolvers, f)

\* the executableSchema getter of a Schemata that has no stored schema: null
\* when buildSchema rejects the text, else the schema with resolvers bound
executableSchema(self) ==
  IF schema(self.sdl) = Null
    THEN Null
    ELSE
      LET g     == [types |-> self.sdl.defs, resolve |-> <<>>]
          bound == {p \in forEachField(g) :
                      bindsResolve(g, self.resolvers, p[1], p[2])}
      IN  [types   |-> self.sdl.defs,
           resolve |-> [T \in {p[1] : p \in bound} |->
                          [f \in {p[2] : p \in {q \in bound : q[1] = T}} |->
                             resolveOf(g, self.resolvers, T, f)]]]

\* stripResolversFromSchema(schema): null for no schema, else the map
\* [typeName][fieldName] of the resolve functions found on its fields
stripResolversFromSchema(g) ==
  IF g = Null
    THEN Null
    ELSE [roots |-> <<>>,
          types |-> [T \in {p[1] : p \in forEachField(g)} \cap DOMAIN g.resolve |->
                       [f \in {p[2] : p \in {q \in forEachField(g) : q[1] = T}}
                               \cap DOMAIN g.resolve[T] |-> g.resolve[T][f]]]]

(***************************************************************************)
(* pareTypeAndSubType: removes from lType the sub-nodes of collection      *)
(* subTypeName that rType names, and their resolvers.  It works on a       *)
(* record [type, error, keys, types]: the left node, the error thrown, the *)
(* top-level keys left in the copied resolver map, and the per-type        *)
(* objects (shared with the map that was copied).                          *)
(***************************************************************************)
RECURSIVE pareLoop(_, _, _, _)
pareLoop(subTypeName, acc, rType, i) ==
  IF acc.error # "none" \/ i > Len(Coll(rType, subTypeName))
    THEN acc
    ELSE
      LET lType    == acc.type
          rSubType == Coll(rType, subTypeName)[i]
      IN  IF subTypeName \notin lType.props
            \* lType[subTypeName] is undefined: .find throws
            THEN [acc EXCEPT !.error = "TypeError"]
            ELSE
              LET at == find(Coll(lType, subTypeName), rSubType.name)
              IN  IF at = 0
                    THEN pareLoop(subTypeName, acc, rType, i + 1)
                  ELSE IF "fields" \notin lType.props
                    \* lType.fields is undefined: .indexOf throws
                    THEN [acc EXCEPT !.error = "TypeError"]
                  ELSE
                    LET lSubType == Coll(lType, subTypeName)[at]
                        index    == indexOf(lType.fields, lSubType)
                        pared    == SetColl(lType, subTypeName,
                                      splice(Coll(lType, subTypeName), index, <<>>))
                        tn       == lType.name
                        sn       == lSubType.name
                    IN  IF /\ tn \in acc.keys
                           /\ tn \in DOMAIN acc.types
                           /\ sn \in DOMAIN acc.types[tn]
                          THEN pareLoop(subTypeName,
                                 [acc EXCEPT !.type = pared,
                                             !.types[tn] = Without(@, sn)],
                                 rType, i + 1)
                        ELSE IF sn \in acc.keys
                          THEN pareLoop(subTypeName,
                                 [acc EXCEPT !.type = pared,
                                             !.keys = @ \ {sn}],
                                 rType, i + 1)
                        ELSE pareLoop(subTypeName,
                                 [acc EXCEPT !.type = pared], rType, i + 1)

pareTypeAndSubType(subTypeName, acc, rType) ==
  IF acc.error # "none"
    THEN acc
  ELSE IF subTypeName \notin rType.props
    \* rType[subTypeName] is undefined: it is not iterable
    THEN [acc EXCEPT !.error = "TypeError"]
  ELSE pareLoop(subTypeName, acc, rType, 1)

(***************************************************************************)
(* pareSDL.  The loop state is [definitions, error, keys, types].          *)
(***************************************************************************)
\* a pare that keeps the emptied container
keepWhenEmpty(definitions, at, lType, body) ==
  [definitions EXCEPT ![at] = lType]

\* if (!lType[body].length) the container at position `at` is spliced out of
\* the definitions; otherwise it stays, with what is left of its collections
dropWhenEmpty(definitions, at, lType, body) ==
  IF Len(Coll(lType, body)) = 0
    THEN splice(definitions, at - 1, <<>>)
    ELSE [definitions EXCEPT ![at] = lType]

pareType(st, at, rType) ==
  LET lType == st.definitions[at]
      acc0  == [type |-> lType, error |-> "none",
                keys |-> st.keys, types |-> st.types]
      \* the collection that decides whether the emptied container is dropped
      body  == CASE lType.kind = "EnumTypeDefinition" -> "values"
                 [] lType.kind = "UnionTypeDefinition" -> "types"
                 [] OTHER -> "fields"
      acc   == pareTypeAndSubType(body,
                 pareTypeAndSubType("directives", acc0, rType), rType)
      put(defs, a) == [definitions |-> defs, error |-> a.error,
                       keys |-> a.keys, types |-> a.types]
  IN  IF lType.kind = "ScalarTypeDefinitionNode"
        THEN [st EXCEPT !.definitions = splice(@, at - 1, <<>>)]
      ELSE IF acc.error # "none"
        THEN put(st.definitions, acc)
      ELSE IF body \notin acc.type.props
        \* lType.fields.length with lType.fields undefined
        THEN put(st.definitions, [acc EXCEPT !.error = "TypeError"])
      ELSE put(dropWhenEmpty(st.definitions, at, acc.type, body), acc)

\* a pare that leaves a source node the target does not have out of the result
RECURSIVE pareDefsLoopSkippingNew(_, _, _)
pareDefsLoopSkippingNew(st, rDefs, i) ==
  IF st.error # "none" \/ i > Len(rDefs)
    THEN st
    ELSE
      LET at    == find(st.definitions, rDefs[i].name)
          rType == IF endsWithExtension(rDefs[i].kind)
                     THEN [rDefs[i] EXCEPT !.kind = asDefinitionKind(@)]
                     ELSE rDefs[i]
      IN  IF at = 0
            THEN pareDefsLoopSkippingNew(st, rDefs, i + 1)
            ELSE pareDefsLoopSkippingNew(pareType(st, at, rType), rDefs, i + 1)

RECURSIVE pareDefsLoop(_, _, _)
pareDefsLoop(st, rDefs, i) ==
  IF st.error # "none" \/ i > Len(rDefs)
    THEN st
    ELSE
      LET at    == find(st.definitions, rDefs[i].name)
          rType == IF endsWithExtension(rDefs[i].kind)
                     THEN [rDefs[i] EXCEPT !.kind = asDefinitionKind(@)]
                     ELSE rDefs[i]
      IN  IF at = 0
            THEN pareDefsLoop([st EXCEPT !.definitions = Append(@, rType)],
                              rDefs, i + 1)
            ELSE pareDefsLoop(pareType(st, at, rType), rDefs, i + 1)

\* this.pareSDL(schemaLanguage, resolverMap).  Returns [error, result, used,
\* types]: the error thrown or "none", the returned Schemata, which map was
\* copied ("resolverMap", "schema" for the one stripped from a GraphQLSchema
\* source, "this" or "fresh") and the per-type objects of that map as the
\* call leaves them.
pareSDL(self, schemaLanguage, resolverMap) ==
  LET norm == normalizeSource(schemaLanguage)
      used == IF resolverMap # Null THEN "resolverMap"
              ELSE IF isGraphQLSchema(schemaLanguage) THEN "schema"
              ELSE IF self.resolvers # Null THEN "this" ELSE "fresh"
      from == IF resolverMap # Null THEN resolverMap
              ELSE IF isGraphQLSchema(schemaLanguage)
                THEN stripResolversFromSchema(schemaLanguage)
              ELSE IF self.resolvers # Null THEN self.resolvers
              ELSE EmptyResolverMap
  IN  IF norm.error # "none"
        THEN [error |-> norm.error, result |-> Null,
              used |-> used, types |-> from.types]
        ELSE
          LET lAST == parse(self.sdl)
              rAST == parse(norm.source)
          IN  IF lAST = Null \/ rAST = Null
                THEN [error |-> "TypeError", result |-> Null,
                      used |-> used, types |-> from.types]
                ELSE
                  LET after(st) ==
                        IF st.error # "none"
                          THEN [error |-> st.error, result |-> Null,
                                used |-> used, types |-> st.types]
                          ELSE [error |-> "none",
                                result |->
                                  [sdl |-> gqlPrint([definitions |-> st.definitions]),
                                   resolvers |->
                                     [roots |-> Restrict(from.roots, st.keys),
                                      types |-> Restrict(st.types, st.keys)]],
                                used |-> used, types |-> st.types]
                  IN  after(pareDefsLoop(
                              [definitions |-> lAST.definitions,
                               error |-> "none",
                               keys |-> TopLevelKeys(from),
                               types |-> from.types],
                              rAST.definitions, 1))

(***************************************************************************)
(* buildResolvers and mergeSchema.                                         *)
(***************************************************************************)
\* buildResolvers(true), one root type: its resolvers move to the top level
\* and are deleted from the per-type object, which is deleted in turn.  The
\* state is [error, map, types]: the map being built and the per-type
\* objects of this.resolvers, which the map shares when `sharing` holds.
flattenRoot(st, rootType, sharing) ==
  IF rootType \in DOMAIN st.map.roots
    THEN [st EXCEPT !.map.roots = Without(@, rootType)]
  ELSE IF rootType \in DOMAIN st.map.types
    THEN LET obj == st.map.types[rootType]
         IN  [error |-> st.error,
              map   |-> [roots |-> Without(ObjectAssign(st.map.roots, obj),
                                           rootType),
                         types |-> Restrict(st.map.types,
                                     DOMAIN st.map.types
                                       \ (DOMAIN obj \cup {rootType}))],
              types |-> IF sharing /\ rootType \in DOMAIN st.types
                          THEN [st.types EXCEPT ![rootType] = <<>>]
                          ELSE st.types]
  ELSE st

\* buildResolvers(false), one root type: every top-level key that names a
\* field of the root type moves under it.  schemaFieldByName reads
\* this.schema.getType(rootType).getFields(), which throws when there is no
\* schema or no such type.
liftRoot(st, rootType, exe) ==
  LET keys == TopLevelKeys(st.map)
  IN  IF st.error # "none" \/ keys = {}
        THEN st
      ELSE IF exe = Null
              \/ ~ \E i \in fieldTypes(exe.types) : exe.types[i].name = rootType
        THEN [st EXCEPT !.error = "TypeError"]
      ELSE
        LET moved == {f \in keys : <<rootType, f>> \in forEachField(exe)}
            under == IF rootType \in DOMAIN st.map.types
                       THEN st.map.types[rootType] ELSE <<>>
        IN  IF moved = {}
              THEN st
              ELSE [st EXCEPT
                      !.map = [roots |-> Restrict(st.map.roots,
                                           DOMAIN st.map.roots \ moved),
                               types |-> ObjectAssign(
                                           Restrict(st.map.types,
                                             DOMAIN st.map.types \ moved),
                                           [t \in {rootType} |->
                                              ObjectAssign(under,
                                                [f \in moved |->
                                                   TopLevel(st.map, f)])])]]

\* this.buildResolvers(flag), flag being "true", "false" or "omitted" (no
\* object to extend with is passed).  Returns [error, map, types]: the error thrown
\* or "none", the resolver map built, and the per-type objects of
\* this.resolvers as the call leaves them.
buildResolvers(self, flag) ==
  LET exe      == executableSchema(self)
      stripped == stripResolversFromSchema(exe)
      sharing  == stripped = Null /\ self.resolvers # Null
      base     == IF stripped # Null THEN stripped
                  ELSE IF self.resolvers # Null THEN self.resolvers
                  ELSE EmptyResolverMap
      st0      == [error |-> "none", map |-> base,
                   types |-> IF self.resolvers = Null
                               THEN <<>> ELSE self.resolvers.types]
  IN  IF flag = "omitted"
        THEN st0
      ELSE IF flag = "true"
        THEN flattenRoot(flattenRoot(flattenRoot(st0, RootTypes[1], sharing),
                                     RootTypes[2], sharing),
                         RootTypes[3], sharing)
      ELSE liftRoot(liftRoot(liftRoot(st0, RootTypes[1], exe),
                             RootTypes[2], exe),
                    RootTypes[3], exe)

\* a merge in which the left entry wins a collision
deepmergeKeepingLeft(x, y) ==
  [roots |-> ObjectAssign(Restrict(y.roots, DOMAIN y.roots \ DOMAIN x.types),
                          x.roots),
   types |-> [T \in ((DOMAIN x.types) \cup (DOMAIN y.types)) \ DOMAIN x.roots |->
                IF T \in DOMAIN x.types /\ T \in DOMAIN y.types
                  THEN ObjectAssign(y.types[T], x.types[T])
                ELSE IF T \in DOMAIN x.types THEN x.types[T]
                ELSE y.types[T]]]

\* merge(x, y) of deepmerge: a new map with every key of both; per-type
\* objects found on both sides are merged field by field, and wherever both
\* sides hold a value the right one is kept
deepmerge(x, y) ==
  [roots |-> ObjectAssign(Restrict(x.roots, DOMAIN x.roots \ DOMAIN y.types),
                          y.roots),
   types |-> [T \in ((DOMAIN x.types) \cup (DOMAIN y.types)) \ DOMAIN y.roots |->
                IF T \in DOMAIN x.types /\ T \in DOMAIN y.types
                  THEN ObjectAssign(x.types[T], y.types[T])
                ELSE IF T \in DOMAIN y.types THEN y.types[T]
                ELSE x.types[T]]]

\* this.mergeSchema(schema, conflictResolvers).  The conflictResolvers
\* argument is not passed on: mergeSDL is called with the schema alone, so
\* its conflictResolvers parameter is the DefaultConflictResolvers object.
\* Returns [error, merged, registry, calls] as mergeSDL does.
mergeSchema(self, g, conflictResolvers, registry) ==
  IF g = Null \/ g = EmptyString
    THEN [error |-> "Error", merged |-> Null,
          registry |-> registry, calls |-> <<>>]
    ELSE
      LET resolvers == deepmerge(buildResolvers(self, "omitted").map,
                                 stripResolversFromSchema(g))
          assigned(schemata) ==
            IF schemata.error # "none"
              THEN schemata
              ELSE [schemata EXCEPT !.merged.resolvers = resolvers]
      IN  assigned(mergeSDL(self, g, registry, registry))

(***************************************************************************)
(* Inputs.  Texts are written as sequences of printed definitions.         *)
(***************************************************************************)

\* the longest list of fields in a generated object type
MaxFields == 2

Sub(name, def) == [name |-> name, def |-> def]

Def(keyword, name, directives, body) ==
  [keyword |-> keyword, name |-> name, directives |-> directives, body |-> body]

Text(defs) == [defs |-> defs, chars |-> TRUE]

FieldPool ==
  {Sub("a", "Int"), Sub("a", "String"), Sub("b", "Int"), Sub("c", "Int")}

\* every list of at most MaxFields fields of the pool with distinct names
FieldLists ==
  UNION {{fs \in [1..n -> FieldPool] :
            \A i, j \in 1..n : i # j => fs[i].name # fs[j].name}
         : n \in 0..MaxFields}

\* the documents of the end-to-end scenario
DocA ==
  Text(<<Def("type", "Query", <<>>, <<Sub("hello", "String")>>),
         Def("type", "Foo", <<>>, <<Sub("a", "Int")>>)>>)

DocB ==
  Text(<<Def("type", "Query", <<>>, <<Sub("world", "String")>>),
         Def("type", "Foo", <<>>, <<Sub("a", "Int"), Sub("b", "Int")>>)>>)

\* object types named Foo, one per field list
FooDocs == {Text(<<Def("type", "Foo", <<>>, fs)>>) : fs \in FieldLists}

\* hand-picked documents for directives, enums, unions and scalars
DirectiveDocs ==
  {Text(<<Def("type", "Foo", <<Sub("d", "1"), Sub("e", "1")>>,
              <<Sub("a", "Int")>>)>>),
   Text(<<Def("type", "Foo", <<Sub("d", "2")>>, <<Sub("b", "Int")>>)>>)}

EnumDocs ==
  {Text(<<Def("enum", "Color", <<>>, <<Sub("RED", "1"), Sub("BLUE", "1")>>)>>),
   Text(<<Def("enum", "Color", <<>>, <<Sub("RED", "2")>>)>>),
   Text(<<Def("enum", "Color", <<>>, <<Sub("GREEN", "2")>>)>>)}

UnionDocs ==
  {Text(<<Def("union", "Pet", <<>>, <<Sub("Cat", "-"), Sub("Dog", "-")>>)>>),
   Text(<<Def("union", "Pet", <<>>, <<Sub("Cat", "-")>>)>>),
   Text(<<Def("union", "Pet", <<>>, <<Sub("Bird", "-")>>)>>)}

ScalarDocs ==
  {Text(<<Def("type", "Query", <<>>, <<Sub("hello", "String")>>),
          Def("scalar", "Date", <<>>, <<>>)>>),
   Text(<<Def("scalar", "Date", <<Sub("d", "2")>>, <<>>)>>),
   Text(<<Def("scalar", "Date", <<>>, <<>>)>>)}

ExtensionDocs ==
  {Text(<<Def("extendType", "Foo", <<>>, <<Sub("b", "Int")>>)>>),
   Text(<<Def("extendType", "Foo", <<Sub("d", "2")>>,
              <<Sub("a", "String"), Sub("c", "Int")>>)>>)}

\* a text with no definition in it (white space), and the empty string
BlankText == Text(<<>>)

InstanceTexts ==
  {DocA} \cup FooDocs \cup DirectiveDocs \cup EnumDocs \cup UnionDocs
         \cup ScalarDocs

SourceTexts ==
  {DocB, BlankText, EmptyString} \cup FooDocs \cup DirectiveDocs \cup EnumDocs
         \cup UnionDocs \cup ScalarDocs \cup ExtensionDocs

\* the documents of the call sequences that go on with a returned Schemata
SeqInstanceTexts ==
  {DocA,
   Text(<<Def("type", "Foo", <<Sub("d", "1"), Sub("e", "1")>>,
              <<Sub("a", "Int")>>)>>),
   Text(<<Def("enum", "Color", <<>>, <<Sub("RED", "1"), Sub("BLUE", "1")>>)>>)}

SeqSourceTexts ==
  {DocB,
   Text(<<Def("type", "Foo", <<Sub("d", "2")>>, <<Sub("b", "Int")>>)>>),
   Text(<<Def("type", "Foo", <<>>, <<Sub("a", "String")>>)>>),
   Text(<<Def("enum", "Color", <<>>, <<Sub("GREEN", "2")>>)>>),
   Text(<<Def("extendType", "Foo", <<>>, <<Sub("b", "Int")>>)>>)}

\* the conflict-resolver objects a caller passes (none, or one custom handler)
ConflictResolverArgs ==
  {<<>>, [k \in {"fieldMergeResolver"} |-> "KeepLeft"]}

\* resolver maps: nested (the one an instance holds), and with the root
\* fields flattened (the one a caller passes to pareSDL)
NestedMap ==
  [roots |-> <<>>,
   types |-> [t \in {"Query", "Foo"} |->
                IF t = "Query"
                  THEN [f \in {"hello", "world"} |-> "fn"]
                  ELSE [f \in {"a", "b"} |-> "fn"]]]

FlatMap ==
  [roots |-> [f \in {"hello", "world"} |-> "fn"],
   types |-> [t \in {"Foo"} |-> [f \in {"a", "b"} |-> "fn"]]]

\* a resolver map with a resolver for every field of DocA and for no other
MapOfDocA ==
  [roots |-> <<>>,
   types |-> [t \in {"Query", "Foo"} |->
                IF t = "Query"
                  THEN [f \in {"hello"} |-> "fn"]
                  ELSE [f \in {"a"} |-> "fn"]]]

\* GraphQLSchema objects a caller passes to mergeSchema; "fn2" stands for the
\* resolve functions found on their fields
GraphQLSchema(types, resolve) == [types |-> types, resolve |-> resolve]

SchemaArgs ==
  {GraphQLSchema(<<Def("type", "Query", <<>>, <<Sub("hello", "String")>>),
                   Def("type", "Foo", <<>>,
                       <<Sub("a", "String"), Sub("b", "Int")>>)>>,
                 [t \in {"Foo"} |-> [f \in {"a"} |-> "fn2"]]),
   GraphQLSchema(<<Def("type", "Query", <<>>, <<Sub("world", "String")>>)>>,
                 [t \in {"Query"} |-> [f \in {"world"} |-> "fn2"]]),
   GraphQLSchema(<<Def("type", "Query", <<>>, <<Sub("hello", "String")>>)>>,
                 <<>>)}

\* the documents of the calls that follow one another on an instance that
\* holds resolvers
SchemaInstanceTexts ==
  {DocA, Text(<<Def("type", "Foo", <<>>, <<Sub("a", "Int")>>)>>)}

SchemaSourceTexts ==
  {DocB, Text(<<Def("type", "Foo", <<>>, <<Sub("a", "String")>>)>>)}

\* what a caller may pass where a source is expected and no text can be made
\* of: the empty string, and null or undefined
FalsySources == {EmptyString, Null}

(***************************************************************************)
(* State                                                                   *)
(***************************************************************************)
VARIABLES
  this,                      \* the Schemata the last call was made on
  call,                      \* the last call and its arguments as passed
  ret,                       \* what the last call returned or threw
  DefaultConflictResolvers,  \* the module-level registry object
  everSupplied,              \* keys some call so far passed a handler for
  added                      \* the functions a resolver list was handed, in call order

vars == <<this, call, ret, DefaultConflictResolvers, everSupplied, added>>

NoCall ==
  [op |-> "none", source |-> EmptyString, conflictResolvers |-> <<>>,
   resolverMap |-> Null, thisResolvers |-> Null]

NoReturn ==
  [error |-> "none", value |-> Null, calls |-> <<>>, resolverMap |-> Null,
   source |-> EmptyString]

Start(instances) ==
  /\ this \in instances
  /\ call = NoCall
  /\ ret = NoReturn
  /\ DefaultConflictResolvers = InitialConflictResolvers
  /\ everSupplied = {}
  /\ added = <<>>

\* merged = self.mergeSDL(schemaLanguage, conflictResolvers)
MergeSDL(self, schemaLanguage, conflictResolvers) ==
  \E r \in {mergeSDL(self, schemaLanguage, conflictResolvers, DefaultConflictResolvers)} :
      /\ call' = [op |-> "mergeSDL", source |-> schemaLanguage,
                  conflictResolvers |-> conflictResolvers,
                  resolverMap |-> Null, thisResolvers |-> self.resolvers]
      /\ ret' = [error |-> r.error, value |-> r.merged, calls |-> r.calls,
                 resolverMap |-> Null, source |-> schemaLanguage]
      /\ DefaultConflictResolvers' = r.registry
      /\ everSupplied' = everSupplied \cup DOMAIN conflictResolvers
      /\ this' = self
      /\ UNCHANGED added

\* a mergeSchema that writes the merged text and resolvers into the receiver
MergeSchemaInPlace(self, g, conflictResolvers) ==
  \E r \in {mergeSchema(self, g, conflictResolvers, DefaultConflictResolvers)} :
      /\ call' = [op |-> "mergeSchema", source |-> g,
                  conflictResolvers |-> conflictResolvers,
                  resolverMap |-> Null, thisResolvers |-> self.resolvers]
      /\ ret' = [error |-> r.error, value |-> r.merged, calls |-> r.calls,
                 resolverMap |-> Null, source |-> g]
      /\ DefaultConflictResolvers' = r.registry
      /\ everSupplied' = everSupplied \cup DOMAIN conflictResolvers
      /\ this' = IF r.error = "none" THEN r.merged ELSE self
      /\ UNCHANGED added

\* merged = self.mergeSchema(schema, conflictResolvers): the receiver is only
\* read (buildResolvers works on a Schemata made from its text and map, and
\* mergeSDL on a fresh parse of its text), and so is the schema
MergeSchema(self, g, conflictResolvers) ==
  \E r \in {mergeSchema(self, g, conflictResolvers, DefaultConflictResolvers)} :
      /\ call' = [op |-> "mergeSchema", source |-> g,
                  conflictResolvers |-> conflictResolvers,
                  resolverMap |-> Null, thisResolvers |-> self.resolvers]
      /\ ret' = [error |-> r.error, value |-> r.merged, calls |-> r.calls,
                 resolverMap |-> Null, source |-> g]
      /\ DefaultConflictResolvers' = r.registry
      /\ everSupplied' = everSupplied \cup DOMAIN conflictResolvers
      /\ this' = self
      /\ UNCHANGED added

\* result = self.pareSDL(schemaLanguage, resolverMap)
PareSDL(self, schemaLanguage, resolverMap) ==
  \E r \in {pareSDL(self, schemaLanguage, resolverMap)} :
      /\ call' = [op |-> "pareSDL", source |-> schemaLanguage,
                  conflictResolvers |-> <<>>,
                  resolverMap |-> resolverMap, thisResolvers |-> self.resolvers]
      /\ ret' = [error |-> r.error, value |-> r.result, calls |-> <<>>,
                 resolverMap |-> IF r.used = "resolverMap"
                                   THEN [resolverMap EXCEPT !.types = r.types]
                                   ELSE resolverMap,
                 source |-> schemaLanguage]
      /\ this' = IF r.used = "this"
                   THEN [self EXCEPT !.resolvers.types = r.types]
                   ELSE self
      /\ UNCHANGED <<DefaultConflictResolvers, everSupplied, added>>

(***************************************************************************)
(* Three programs.  mergeSDL reads and writes the registry and never looks *)
(* at a resolver map; pareSDL reads and writes resolver maps and never     *)
(* looks at the registry.  SpecMerge is every sequence of mergeSDL calls   *)
(* on one instance, SpecPare every sequence of pareSDL calls on one        *)
(* instance, and SpecSeq the sequences of both in which a call may also be *)
(* made on the Schemata the previous call returned.                        *)
(***************************************************************************)
InitMerge ==
  Start({[sdl |-> t, resolvers |-> Null] : t \in InstanceTexts})

NextMerge ==
  \E s \in SourceTexts, cr \in ConflictResolverArgs : MergeSDL(this, s, cr)

SpecMerge == InitMerge /\ [][NextMerge]_vars

InitPare ==
  Start({[sdl |-> t, resolvers |-> r] :
           t \in InstanceTexts, r \in {Null, NestedMap}})

NextPare ==
  \E s \in SourceTexts, m \in {Null, FlatMap} : PareSDL(this, s, m)

SpecPare == InitPare /\ [][NextPare]_vars

\* SpecPareMap: pareSDL calls on documents in which a field or a directive
\* of one type is named as a field of a root type, with resolver maps that
\* hold that root field's resolver flattened or nested.
PareMapInstanceTexts ==
  {Text(<<Def("type", "Query", <<>>, <<Sub("hello", "String"), Sub("a", "Int")>>),
          Def("type", "Foo", <<>>, <<Sub("a", "Int"), Sub("b", "Int")>>)>>),
   Text(<<Def("type", "Query", <<>>, <<Sub("hello", "String")>>),
          Def("type", "Foo", <<Sub("hello", "1"), Sub("e", "1")>>,
              <<Sub("a", "Int")>>)>>),
   Text(<<Def("type", "Query", <<>>, <<Sub("hello", "String")>>),
          Def("type", "Foo", <<Sub("a", "1")>>,
              <<Sub("a", "Int"), Sub("b", "Int")>>)>>),
   DocA}

PareMapSourceTexts ==
  {Text(<<Def("type", "Foo", <<>>, <<Sub("a", "Int")>>)>>),
   Text(<<Def("type", "Foo", <<Sub("hello", "2")>>, <<Sub("c", "Int")>>)>>),
   Text(<<Def("type", "Foo", <<Sub("a", "2")>>, <<Sub("c", "Int")>>)>>),
   Text(<<Def("type", "Query", <<>>, <<Sub("hello", "String")>>)>>),
   DocB}

PareMaps ==
  {Null, FlatMap, NestedMap,
   [roots |-> [f \in {"hello", "a"} |-> "fn"], types |-> <<>>]}

InitPareMap ==
  Start({[sdl |-> t, resolvers |-> r] :
           t \in PareMapInstanceTexts, r \in {Null, NestedMap}})

NextPareMap ==
  \E s \in PareMapSourceTexts, m \in PareMaps : PareSDL(this, s, m)

SpecPareMap == InitPareMap /\ [][NextPareMap]_vars

\* the Schematas the next call can be made on
Receivers ==
  {this} \cup (IF ret.error = "none" /\ ret.value # Null THEN {ret.value} ELSE {})

InitSeq ==
  Start({[sdl |-> t, resolvers |-> Null] : t \in SeqInstanceTexts})

NextSeq ==
  \/ \E self \in Receivers, s \in SeqSourceTexts : MergeSDL(self, s, <<>>)
  \/ \E self \in Receivers, s \in SeqSourceTexts : PareSDL(self, s, Null)

SpecSeq == InitSeq /\ [][NextSeq]_vars

\* SpecSchema: every sequence of mergeSchema, mergeSDL and pareSDL calls on
\* one instance that may hold a resolver map, falsy sources included.
InitSchema ==
  Start({[sdl |-> t, resolvers |-> r] :
           t \in SchemaInstanceTexts,
           r \in {Null, NestedMap, FlatMap, MapOfDocA}})

NextSchema ==
  \/ \E g \in SchemaArgs \cup FalsySources, cr \in ConflictResolverArgs :
       MergeSchema(this, g, cr)
  \/ \E s \in SchemaSourceTexts \cup FalsySources, cr \in ConflictResolverArgs :
       MergeSDL(this, s, cr)
  \/ \E s \in SchemaSourceTexts \cup FalsySources, m \in {Null, FlatMap} :
       PareSDL(this, s, m)

SpecSchema == InitSchema /\ [][NextSchema]_vars

(***************************************************************************)
(* buildResolvers on its own: SpecBuild is every sequence of buildResolvers *)
(* calls, with each value of the flag, on one instance that may hold a     *)
(* resolver map.                                                           *)
(***************************************************************************)

\* documents with all, some and none of the root types
RootDocs ==
  {Text(<<Def("type", "Query", <<>>, <<Sub("hello", "String")>>),
          Def("type", "Mutation", <<>>, <<Sub("set", "Int")>>),
          Def("type", "Subscription", <<>>, <<Sub("on", "Int")>>)>>),
   Text(<<Def("type", "Query", <<>>, <<Sub("hello", "String")>>),
          Def("type", "Mutation", <<>>, <<Sub("set", "Int")>>)>>),
   DocA,
   Text(<<Def("type", "Query", <<>>, <<Sub("hello", "String")>>)>>),
   Text(<<Def("type", "Foo", <<>>, <<Sub("a", "Int")>>)>>)}

\* resolver maps with a resolver for a field of every root type, nested and
\* flattened
RootMaps ==
  {[roots |-> <<>>,
    types |-> [t \in {"Query", "Mutation", "Subscription"} |->
                 IF t = "Query" THEN [f \in {"hello"} |-> "fn"]
                 ELSE IF t = "Mutation" THEN [f \in {"set"} |-> "fn"]
                 ELSE [f \in {"on"} |-> "fn"]]],
   [roots |-> [f \in {"hello", "set", "on"} |-> "fn"], types |-> <<>>]}

BuildFlags == {"omitted", "true", "false"}

\* map = self.buildResolvers(flag); flattening deletes from the per-type
\* objects of this.resolvers when the map shares them
BuildResolvers(self, flag) ==
  \E r \in {buildResolvers(self, flag)} :
      /\ call' = [op |-> "buildResolvers", flag |-> flag,
                  thisResolvers |-> self.resolvers]
      /\ ret' = [error |-> r.error,
                 value |-> IF r.error = "none" THEN r.map ELSE Null]
      /\ this' = IF self.resolvers = Null THEN self
                 ELSE [self EXCEPT !.resolvers.types = r.types]
      /\ UNCHANGED <<DefaultConflictResolvers, everSupplied, added>>

InitBuild ==
  Start({[sdl |-> t, resolvers |-> r] :
           t \in RootDocs,
           r \in {Null, EmptyResolverMap, NestedMap, FlatMap, MapOfDocA}
                   \cup RootMaps})

NextBuild == \E flag \in BuildFlags : BuildResolvers(this, flag)

SpecBuild == InitBuild /\ [][NextBuild]_vars

(***************************************************************************)
(* ExtendedResolver: an ordered list of field resolvers run as one.        *)
(***************************************************************************)

\* A function value: its name and, for the closure SchemaInjector builds,
\* the schema it captured.
Fn(name) == [name |-> name, newSchema |-> "none"]

isFn(o) == "name" \in DOMAIN o

\* A JavaScript object is a record that carries `object`; {} has no other
\* key.  null and undefined are Null.
EmptyObject == [object |-> TRUE]

isObject(v) == "object" \in DOMAIN v

WithSchema(s) == [object |-> TRUE, schema |-> s]

\* o.schema, "none" when the key is missing
schemaOf(o) == IF "schema" \in DOMAIN o THEN o.schema ELSE "none"

\* Object.assign(target, source)
assign(target, source) ==
  [k \in DOMAIN target \cup DOMAIN source |->
     IF k \in DOMAIN source THEN source[k] ELSE target[k]]

\* new ExtendedResolver(resolver): a copy of another ExtendedResolver, or a
\* list that holds the one resolver
ExtendedResolver(resolver) ==
  IF "listing" \in DOMAIN resolver
    THEN [listing |-> resolver.listing, original |-> resolver.original,
          patcher |-> resolver.patcher]
    ELSE [listing |-> <<resolver>>, original |-> resolver, patcher |-> Null]

from(resolver, patcher) ==
  LET newResolver == ExtendedResolver(resolver)
  IN  IF patcher # Null THEN [newResolver EXCEPT !.patcher = patcher]
      ELSE newResolver

\* listing.splice(index, 0, fn) with a zero-based index
spliceIn(listing, index, fn) ==
  SubSeq(listing, 1, index) \o <<fn>> \o SubSeq(listing, index + 1, Len(listing))

\* listing.indexOf(original): zero-based, -1 when missing
originalIndex(self) ==
  LET at == {i \in 1..Len(self.listing) : self.listing[i] = self.original}
  IN  IF at = {} THEN -1 ELSE (CHOOSE i \in at : \A j \in at : i <= j) - 1

prepend(self, preresolver) ==
  IF preresolver # Null /\ isFn(preresolver)
    THEN LET index == IF originalIndex(self) # -1 THEN originalIndex(self) ELSE 0
         IN  [self EXCEPT !.listing = spliceIn(self.listing, index, preresolver)]
    ELSE self

\* an append that puts the function at the end of the list
appendLast(self, postresolver) ==
  IF postresolver # Null /\ isFn(postresolver)
    THEN [self EXCEPT !.listing = Append(self.listing, postresolver)]
    ELSE self

append(self, postresolver) ==
  IF postresolver # Null /\ isFn(postresolver)
    THEN LET index == IF originalIndex(self) # -1 THEN originalIndex(self) + 1
                      ELSE Len(self.listing)
         IN  [self EXCEPT !.listing = spliceIn(self.listing, index, postresolver)]
    ELSE self

push(self, postresolver) ==
  IF postresolver # Null /\ isFn(postresolver)
    THEN [self EXCEPT !.listing = Append(self.listing, postresolver)]
    ELSE self

RECURSIVE prependEach(_, _, _)
prependEach(resolver, prepends, i) ==
  IF i > Len(prepends) THEN resolver
  ELSE prependEach(prepend(resolver, prepends[i]), prepends, i + 1)

RECURSIVE appendEach(_, _, _)
appendEach(resolver, appends, i) ==
  IF i > Len(appends) THEN resolver
  ELSE appendEach(append(resolver, appends[i]), appends, i + 1)

wrap(original, prepends, appends, patcher) ==
  LET resolver == ExtendedResolver(original)
      patched  == IF patcher # Null /\ isFn(patcher)
                    THEN [resolver EXCEPT !.patcher = patcher] ELSE resolver
  IN  appendEach(prependEach(patched, prepends, 1), appends, 1)

\* the closure `function SchemaInjector(source, args, context, info)`
SchemaInjectorFn(newSchema) == [name |-> "SchemaInjector", newSchema |-> newSchema]

SchemaInjector(originalResolver, newSchema, patcher) ==
  wrap(originalResolver, <<SchemaInjectorFn(newSchema)>>, <<>>, patcher)

\* The body of the injecting closure on the argument list it is called with:
\* the third or the fourth argument gets the captured schema, depending on
\* arguments.length.
injectSchema(fn, argv) ==
  IF Len(argv) = 3
    THEN IF argv[3] = Null
           THEN [error |-> "TypeError", result |-> Null, argv |-> argv]
         ELSE IF schemaOf(argv[3]) # "none"
           THEN [error |-> "none", result |-> Null,
                 argv |-> [argv EXCEPT ![3] = assign(@, WithSchema(fn.newSchema))]]
         ELSE [error |-> "none", result |-> Null, argv |-> argv]
  ELSE IF Len(argv) = 4
    THEN IF argv[4] = Null
           THEN [error |-> "TypeError", result |-> Null, argv |-> argv]
         ELSE IF schemaOf(argv[4]) # "none"
           THEN [error |-> "none", result |-> Null,
                 argv |-> [argv EXCEPT ![4] = assign(@, WithSchema(fn.newSchema))]]
         ELSE [error |-> "none", result |-> Null, argv |-> argv]
  ELSE [error |-> "none", result |-> Null, argv |-> argv]

\* fn.apply(thisArg, argv) for the functions of the model: the injecting
\* closure, and field resolvers that return an object ("original", "pre",
\* "post"), nothing ("silent") or throw ("throws").
applyFn(fn, argv) ==
  IF fn.name = "SchemaInjector" THEN injectSchema(fn, argv)
  ELSE IF fn.name = "throws"
    THEN [error |-> "Error", result |-> Null, argv |-> argv]
  ELSE IF fn.name = "silent"
    THEN [error |-> "none", result |-> Null, argv |-> argv]
  ELSE IF fn.name = "pre"
    THEN [error |-> "none", result |-> [object |-> TRUE, pre |-> "p"], argv |-> argv]
  ELSE IF fn.name = "post"
    THEN [error |-> "none", result |-> [object |-> TRUE, post |-> "q"], argv |-> argv]
  ELSE [error |-> "none", result |-> [object |-> TRUE, data |-> "d"], argv |-> argv]

\* The loop of handler.apply from entry i: every function is called with
\* myArgs.concat(results); an object result is folded into an object
\* `results`, any other result replaces it.  The log keeps, for every call,
\* the function, the argument list it was called with, what it returned and
\* `results` after the call.
RECURSIVE applyLoop(_, _, _)
applyLoop(listing, i, st) ==
  IF i > Len(listing) \/ st.error # "none" THEN st
  ELSE LET argv    == st.myArgs \o <<st.results>>
           r       == applyFn(listing[i], argv)
           results == r.argv[Len(argv)]
           folded  == IF results # Null /\ isObject(results)
                           /\ r.result # Null /\ isObject(r.result)
                        THEN assign(results, r.result)
                        ELSE r.result
       IN  IF r.error # "none"
             THEN [st EXCEPT !.error = "WrappedResolverExecutionError",
                             !.log = Append(@, [fn |-> listing[i], argv |-> argv,
                                                result |-> Null, results |-> results])]
             ELSE applyLoop(listing, i + 1,
                    [myArgs  |-> SubSeq(r.argv, 1, Len(st.myArgs)),
                     results |-> folded,
                     log     |-> Append(st.log, [fn |-> listing[i], argv |-> argv,
                                                 result |-> r.result,
                                                 results |-> folded]),
                     error   |-> "none"])

\* the patcher of the model wraps what it is given
callPatcher(fn, results) == [object |-> TRUE, patched |-> results]

\* an invocation that returns the results without calling the patcher
applyUnpatched(target, args) ==
  LET st == applyLoop(target.listing, 1,
              [myArgs |-> args, results |-> EmptyObject, log |-> <<>>,
               error |-> "none"])
  IN  [error |-> st.error, value |-> IF st.error # "none" THEN Null ELSE st.results,
       log |-> st.log, args |-> st.myArgs, patched |-> <<>>]

\* handler.apply(target, thisArg, args)
apply(target, args) ==
  LET st == applyLoop(target.listing, 1,
              [myArgs |-> args, results |-> EmptyObject, log |-> <<>>,
               error |-> "none"])
  IN  IF st.error # "none"
        THEN [error |-> st.error, value |-> Null, log |-> st.log,
              args |-> st.myArgs, patched |-> <<>>]
      ELSE IF target.patcher # Null /\ isFn(target.patcher)
        THEN [error |-> "none", value |-> callPatcher(target.patcher, st.results),
              log |-> st.log, args |-> st.myArgs, patched |-> <<st.results>>]
      ELSE [error |-> "none", value |-> st.results, log |-> st.log,
            args |-> st.myArgs, patched |-> <<>>]

\* Inputs

\* the longest resolver list the model grows
MaxListing == 4

NewSchemas == {"S2", "S3"}

Patchers == {Null, Fn("patch")}

\* what prepend, append and push are handed: functions, the wrapped resolver
\* itself among them, and a non-function
AddedResolvers ==
  {Fn("pre"), Fn("post"), Fn("silent"), Fn("throws"), Fn("original"), Null}

WrapPrepends == {<<>>, <<Fn("pre")>>, <<Fn("pre"), Fn("silent")>>}

WrapAppends == {<<>>, <<Fn("post")>>, <<Fn("post"), Fn("silent")>>}

\* (source, args, context) and (source, args, context, info), with and
\* without a schema on context and info
InvocationArgs ==
  {<<EmptyObject, EmptyObject, c>> : c \in {EmptyObject, WithSchema("S1")}}
    \cup {<<EmptyObject, EmptyObject, c, i>> :
            c \in {EmptyObject, WithSchema("S1")},
            i \in {EmptyObject, WithSchema("S1")}}

NoResolverCall == [op |-> "none", fn |-> Null, args |-> <<>>]

NoResolverReturn ==
  [error |-> "none", value |-> Null, log |-> <<>>, args |-> <<>>, patched |-> <<>>]

\* the calls with a function argument, as `added` keeps them
Handed(op, fns) == [i \in 1..Len(fns) |-> [op |-> op, fn |-> fns[i]]]

Noted(op, fn) == IF fn # Null /\ isFn(fn) THEN <<[op |-> op, fn |-> fn]>> ELSE <<>>

\* Actions

\* resolver.prepend(fn)
Prepend(self, fn) ==
  /\ Len(self.listing) < MaxListing
  /\ this' = prepend(self, fn)
  /\ call' = [op |-> "prepend", fn |-> fn, args |-> <<>>]
  /\ ret' = NoResolverReturn
  /\ added' = added \o Noted("prepend", fn)
  /\ UNCHANGED <<DefaultConflictResolvers, everSupplied>>

\* resolver.append(fn)
AppendResolver(self, fn) ==
  /\ Len(self.listing) < MaxListing
  /\ this' = append(self, fn)
  /\ call' = [op |-> "append", fn |-> fn, args |-> <<>>]
  /\ ret' = NoResolverReturn
  /\ added' = added \o Noted("append", fn)
  /\ UNCHANGED <<DefaultConflictResolvers, everSupplied>>

\* resolver.push(fn)
Push(self, fn) ==
  /\ Len(self.listing) < MaxListing
  /\ this' = push(self, fn)
  /\ call' = [op |-> "push", fn |-> fn, args |-> <<>>]
  /\ ret' = NoResolverReturn
  /\ added' = added \o Noted("push", fn)
  /\ UNCHANGED <<DefaultConflictResolvers, everSupplied>>

\* resolver(...args)
Invoke(self, args) ==
  /\ this' = self
  /\ call' = [op |-> "apply", fn |-> Null, args |-> args]
  /\ ret' = apply(self, args)
  /\ UNCHANGED <<DefaultConflictResolvers, everSupplied, added>>

\* SpecResolver: a resolver built by SchemaInjector or wrap, then any
\* sequence of prepend, append, push and invocations.
\* resolver = ExtendedResolver.wrap(original, prepends, appends, patcher)
Wrapped(original, prepends, appends, patcher) ==
  /\ this = wrap(original, prepends, appends, patcher)
  /\ call = [op |-> "wrap", fn |-> original, args |-> <<prepends, appends>>]
  /\ added = Handed("prepend", prepends) \o Handed("append", appends)

\* resolver = ExtendedResolver.SchemaInjector(original, newSchema, patcher)
Injecting(original, newSchema, patcher) ==
  /\ this = SchemaInjector(original, newSchema, patcher)
  /\ call = [op |-> "SchemaInjector", fn |-> original, args |-> <<newSchema>>]
  /\ added = Handed("prepend", <<SchemaInjectorFn(newSchema)>>)

InitResolver ==
  /\ \/ \E s \in NewSchemas, p \in Patchers : Injecting(Fn("original"), s, p)
     \/ \E pre \in WrapPrepends, post \in WrapAppends, p \in Patchers :
          Wrapped(Fn("original"), pre, post, p)
  /\ ret = NoResolverReturn
  /\ DefaultConflictResolvers = InitialConflictResolvers
  /\ everSupplied = {}

NextResolver ==
  \/ \E fn \in AddedResolvers : Prepend(this, fn)
  \/ \E fn \in AddedResolvers : AppendResolver(this, fn)
  \/ \E fn \in AddedResolvers : Push(this, fn)
  \/ \E args \in InvocationArgs : Invoke(this, args)

SpecResolver == InitResolver /\ [][NextResolver]_vars

(***************************************************************************)
(* ExtendedResolverMap: a resolver map kept with the schema, or the SDL,   *)
(* it belongs to.                                                          *)
(***************************************************************************)

\* new ExtendedResolverMap(config)
ExtendedResolverMap(config) ==
  [schema |-> config.schema, sdl |-> config.schema, resolvers |-> config.resolvers]

\* ExtendedResolverMap.from(config)
ExtendedResolverMapFrom(config) == ExtendedResolverMap(config)

\* what iterating over an instance yields: one {key, value} per key of its
\* resolvers
iterator(self) ==
  IF self.resolvers = Null
    THEN [error |-> "TypeError", value |-> {}]
    ELSE [error |-> "none",
          value |-> {[key |-> k, value |-> self.resolvers[k]] :
                       k \in DOMAIN self.resolvers}]

\* the config objects a caller passes: schema and sdl may be missing
ResolverMapConfigs ==
  {[schema |-> g, sdl |-> t, resolvers |-> r] :
     g \in SchemaArgs \cup {Null},
     t \in {Null, DocA, DocB, BlankText},
     r \in {<<>>, [f \in {"hello"} |-> "fn"], [f \in {"hello", "world"} |-> "fn"]}}

\* map = new ExtendedResolverMap(config)
NewResolverMap(config) ==
  /\ this' = ExtendedResolverMap(config)
  /\ call' = [op |-> "new", config |-> config]
  /\ ret' = [error |-> "none", value |-> {}]
  /\ UNCHANGED <<DefaultConflictResolvers, everSupplied, added>>

\* map = ExtendedResolverMap.from(config)
ResolverMapFrom(config) ==
  /\ this' = ExtendedResolverMapFrom(config)
  /\ call' = [op |-> "from", config |-> config]
  /\ ret' = [error |-> "none", value |-> {}]
  /\ UNCHANGED <<DefaultConflictResolvers, everSupplied, added>>

\* [...map]
Iterate(self) ==
  /\ call' = [op |-> "iterate", config |-> Null]
  /\ ret' = iterator(self)
  /\ UNCHANGED <<this, DefaultConflictResolvers, everSupplied, added>>

InitMap ==
  /\ \E config \in ResolverMapConfigs :
       /\ this = ExtendedResolverMap(config)
       /\ call = [op |-> "none", config |-> Null]
  /\ ret = [error |-> "none", value |-> {}]
  /\ DefaultConflictResolvers = InitialConflictResolvers
  /\ everSupplied = {}
  /\ added = <<>>

NextMap ==
  \/ \E config \in ResolverMapConfigs : NewResolverMap(config)
  \/ \E config \in ResolverMapConfigs : ResolverMapFrom(config)
  \/ Iterate(this)

SpecMap == InitMap /\ [][NextMap]_vars

(***************************************************************************)
(* Reading documents in the claims.                                        *)
(***************************************************************************)

\* the definitions the .ast getter of a Schemata shows (none when it is null)
Defs(sdl) == LET ast == parse(sdl) IN IF ast = Null THEN <<>> ELSE ast.definitions

\* positions of the elements of a sequence that carry a name
Named(seq, name) == {i \in 1..Len(seq) : seq[i].name = name}

Names(seq) == {seq[i].name : i \in 1..Len(seq)}

HasFields(node) == "fields" \in node.props

ThisDefs == Defs(this.sdl)

SourceDefs == Defs(call.source)

\* the definitions of the returned Schemata (none when the call threw)
RetDefs == IF ret.value = Null THEN <<>> ELSE Defs(ret.value.sdl)

Returned == ret.error = "none" /\ ret.value # Null

\* pairs <<i, j>>: definition i of the receiver and definition j of the
\* source have one name and both are of kind `kind`
SameNamed(kind) ==
  {p \in (1..Len(ThisDefs)) \X (1..Len(SourceDefs)) :
     /\ ThisDefs[p[1]].name = SourceDefs[p[2]].name
     /\ ThisDefs[p[1]].kind = kind
     /\ SourceDefs[p[2]].kind = kind}

\* pairs <<i, j>> of same-named definitions that both have a list of fields
SameNamedObjects ==
  {p \in (1..Len(ThisDefs)) \X (1..Len(SourceDefs)) :
     /\ ThisDefs[p[1]].name = SourceDefs[p[2]].name
     /\ HasFields(ThisDefs[p[1]])
     /\ HasFields(SourceDefs[p[2]])}

OnlyObjects ==
  /\ ThisDefs # <<>> /\ SourceDefs # <<>>
  /\ \A i \in 1..Len(ThisDefs) : HasFields(ThisDefs[i])
  /\ \A j \in 1..Len(SourceDefs) : HasFields(SourceDefs[j])

\* the texts of the end-to-end scenario
DocAB ==
  Text(<<Def("type", "Query", <<>>,
             <<Sub("hello", "String"), Sub("world", "String")>>),
         Def("type", "Foo", <<>>, <<Sub("a", "Int"), Sub("b", "Int")>>)>>)

DocQueryHello ==
  Text(<<Def("type", "Query", <<>>, <<Sub("hello", "String")>>)>>)

(***************************************************************************)
(* Claims                                                                  *)
(***************************************************************************)

\* C1: mergeSDL(A, B) is exactly Query {hello, world}, Foo {a, b}; paring
\* that result by B leaves a document whose only type is Query {hello}.
C1_EndToEnd ==
  /\ (call.op = "mergeSDL" /\ this.sdl = DocA /\ call.source = DocB)
       => (Returned /\ ret.value.sdl = DocAB)
  /\ (call.op = "pareSDL" /\ this.sdl = DocAB /\ call.source = DocB)
       => (Returned /\ ret.value.sdl = DocQueryHello)

\* C1 witness: the merged Schemata of A and B has been pared by B
C1_Witness ==
  /\ call.op = "pareSDL" /\ this.sdl = DocAB /\ call.source = DocB
  /\ Returned
  /\ Names(RetDefs) = {"Query"}

\* C2: a mergeSDL call made while no call has ever supplied a resolver
\* completes on documents of object types, and every field named in both
\* same-named types is in the result once, as the right document defines it.
C2_RightBiasDefault ==
  (call.op = "mergeSDL" /\ everSupplied = {}) =>
    /\ OnlyObjects => Returned
    /\ Returned =>
         \A p \in SameNamedObjects :
           LET lType == ThisDefs[p[1]]
               rType == SourceDefs[p[2]]
           IN  \A k \in 1..Len(rType.fields) :
                 Named(lType.fields, rType.fields[k].name) # {} =>
                   \E m \in Named(RetDefs, lType.name) :
                     /\ HasFields(RetDefs[m])
                     /\ \E f \in Named(RetDefs[m].fields, rType.fields[k].name) :
                          /\ RetDefs[m].fields[f] = rType.fields[k]
                          /\ Named(RetDefs[m].fields, rType.fields[k].name) = {f}

\* C2 witness: a default merge returned where the two documents define one
\* field of one type differently
C2_Witness ==
  /\ call.op = "mergeSDL" /\ everSupplied = {} /\ Returned
  /\ \E p \in SameNamedObjects :
       \E k \in 1..Len(SourceDefs[p[2]].fields) :
         \E l \in Named(ThisDefs[p[1]].fields, SourceDefs[p[2]].fields[k].name) :
           ThisDefs[p[1]].fields[l] # SourceDefs[p[2]].fields[k]

\* the receiver and the source define a same-named enum sharing a value name,
\* or a same-named union sharing a member name
SharesEnumValueOrUnionMember ==
  \/ \E p \in SameNamed("EnumTypeDefinition") :
       Names(ThisDefs[p[1]].values) \cap Names(SourceDefs[p[2]].values) # {}
  \/ \E p \in SameNamed("UnionTypeDefinition") :
       Names(ThisDefs[p[1]].types) \cap Names(SourceDefs[p[2]].types) # {}

\* C3: merging documents whose same-named enums share a value (or unions a
\* member) with the default resolvers raises no error, and the merged enum or
\* union holds the shared name once, as the right document defines it.
C3_ConflictsNeverThrow ==
  (call.op = "mergeSDL" /\ everSupplied = {} /\ SharesEnumValueOrUnionMember) =>
    /\ Returned
    /\ \A p \in SameNamed("EnumTypeDefinition") :
         \A k \in 1..Len(SourceDefs[p[2]].values) :
           Named(ThisDefs[p[1]].values, SourceDefs[p[2]].values[k].name) # {} =>
             \E m \in Named(RetDefs, ThisDefs[p[1]].name) :
               \E v \in Named(RetDefs[m].values, SourceDefs[p[2]].values[k].name) :
                 /\ RetDefs[m].values[v] = SourceDefs[p[2]].values[k]
                 /\ Named(RetDefs[m].values, SourceDefs[p[2]].values[k].name) = {v}
    /\ \A p \in SameNamed("UnionTypeDefinition") :
         \A k \in 1..Len(SourceDefs[p[2]].types) :
           Named(ThisDefs[p[1]].types, SourceDefs[p[2]].types[k].name) # {} =>
             \E m \in Named(RetDefs, ThisDefs[p[1]].name) :
               \E v \in Named(RetDefs[m].types, SourceDefs[p[2]].types[k].name) :
                 /\ RetDefs[m].types[v] = SourceDefs[p[2]].types[k]
                 /\ Named(RetDefs[m].types, SourceDefs[p[2]].types[k].name) = {v}

\* C4: in every mergeSDL call, a field conflict is settled by the default
\* (the right field is the one in the result) whenever the call itself passed
\* no fieldMergeResolver, whatever earlier calls passed.
C4_RegistryFallback ==
  (call.op = "mergeSDL" /\ Returned
     /\ "fieldMergeResolver" \notin DOMAIN call.conflictResolvers) =>
    \A p \in SameNamedObjects :
      LET lType == ThisDefs[p[1]]
          rType == SourceDefs[p[2]]
      IN  \A k \in 1..Len(rType.fields) :
            Named(lType.fields, rType.fields[k].name) # {} =>
              \E m \in Named(RetDefs, lType.name) :
                \E f \in Named(RetDefs[m].fields, rType.fields[k].name) :
                  RetDefs[m].fields[f] = rType.fields[k]

\* pairs of same-named scalars of the receiver and the source
SameNamedScalars == SameNamed("ScalarTypeDefinition")

\* C5: when both documents define a scalar of one name, mergeSDL does not
\* fail and calls the scalar resolver exactly once for it, with the two
\* scalar definitions and the two configs (or null).
C5_ScalarResolverInvoked ==
  (call.op = "mergeSDL" /\ SameNamedScalars # {}) =>
    /\ Returned
    /\ \A p \in SameNamedScalars :
         Cardinality(
           {c \in 1..Len(ret.calls) :
              /\ ret.calls[c].resolver = "scalarMergeResolver"
              /\ ret.calls[c].lType = ThisDefs[p[1]].name
              /\ ret.calls[c].rType = SourceDefs[p[2]].name
              /\ ret.calls[c].lSubType =
                   scalarConfig("left", schema(this.sdl), ThisDefs[p[1]].name)
              /\ ret.calls[c].rSubType =
                   scalarConfig("right", schema(call.source),
                                SourceDefs[p[2]].name)}) = 1

\* C6: when the source of pareSDL defines a scalar whose name matches a scalar
\* of the receiver, the call completes and the returned document has no
\* definition of that name.
C6_PareDropsScalars ==
  (call.op = "pareSDL" /\ SameNamedScalars # {}) =>
    /\ Returned
    /\ \A p \in SameNamedScalars : Named(RetDefs, ThisDefs[p[1]].name) = {}

\* the receiver has an enum all of whose values (at least one) are named in
\* the same-named enum of the source, or such a union
LastValueOrMemberPared ==
  \/ \E p \in SameNamed("EnumTypeDefinition") :
       /\ ThisDefs[p[1]].values # <<>>
       /\ Names(ThisDefs[p[1]].values) \subseteq Names(SourceDefs[p[2]].values)
  \/ \E p \in SameNamed("UnionTypeDefinition") :
       /\ ThisDefs[p[1]].types # <<>>
       /\ Names(ThisDefs[p[1]].types) \subseteq Names(SourceDefs[p[2]].types)

\* C7: when pareSDL removes the last value of an enum or the last member of a
\* union, the call completes and the returned document no longer has that
\* enum or union.
C7_EmptyEnumOrUnionPruned ==
  (call.op = "pareSDL" /\ LastValueOrMemberPared) =>
    /\ Returned
    /\ \A p \in SameNamed("EnumTypeDefinition") :
         Names(ThisDefs[p[1]].values) \subseteq Names(SourceDefs[p[2]].values)
           => Named(RetDefs, ThisDefs[p[1]].name) = {}
    /\ \A p \in SameNamed("UnionTypeDefinition") :
         Names(ThisDefs[p[1]].types) \subseteq Names(SourceDefs[p[2]].types)
           => Named(RetDefs, ThisDefs[p[1]].name) = {}

\* C8: pareSDL completes on documents of object types; a type all of whose
\* fields are named in the same-named source type is not in the returned
\* document, and a type with a field the source type does not name is.
C8_EmptyObjectPruned ==
  call.op = "pareSDL" =>
    /\ OnlyObjects => Returned
    /\ Returned =>
         \A p \in SameNamedObjects :
           LET T == ThisDefs[p[1]]
               S == SourceDefs[p[2]]
           IN  IF Names(T.fields) \subseteq Names(S.fields)
                 THEN Named(RetDefs, T.name) = {}
                 ELSE Named(RetDefs, T.name) # {}

\* C8 witness: a type with fields lost all of them to a pare and is gone,
\* while the call returned
C8_Witness ==
  /\ call.op = "pareSDL" /\ Returned
  /\ \E p \in SameNamedObjects :
       /\ ThisDefs[p[1]].fields # <<>>
       /\ Names(ThisDefs[p[1]].fields) \subseteq Names(SourceDefs[p[2]].fields)
       /\ Named(RetDefs, ThisDefs[p[1]].name) = {}

\* the map pareSDL copies: the resolverMap argument, else the receiver's own
\* map, as it was when the call was made
MapBefore ==
  IF call.resolverMap # Null THEN call.resolverMap ELSE call.thisResolvers

\* C9: after pareSDL, for every type T in both documents and every field f in
\* both T's, the resolver map of the returned Schemata has no entry [T][f].
C9_ResolverMapConsistent ==
  (call.op = "pareSDL" /\ Returned) =>
    \A p \in SameNamedObjects :
      \A f \in Names(ThisDefs[p[1]].fields) \cap Names(SourceDefs[p[2]].fields) :
        ~ HasResolver(ret.value.resolvers, ThisDefs[p[1]].name, f)

\* C9 witness: the copied map had a resolver for a field that the pare removed
C9_Witness ==
  /\ call.op = "pareSDL" /\ Returned
  /\ \E p \in SameNamedObjects :
       \E f \in Names(ThisDefs[p[1]].fields) \cap Names(SourceDefs[p[2]].fields) :
         HasResolver(MapBefore, ThisDefs[p[1]].name, f)

\* C10: pareSDL leaves the resolverMap it was given, nested per-type maps
\* included, and the receiver's own resolver map as they were before the call.
C10_PareLeavesInputsUnchanged ==
  call.op = "pareSDL" =>
    /\ ret.resolverMap = call.resolverMap
    /\ this.resolvers = call.thisResolvers

\* the text in which every extension of a document is written as a base
\* definition with the same name, directives and fields
WrittenAsBase(sdl) ==
  [sdl EXCEPT !.defs =
     [i \in 1..Len(sdl.defs) |->
        IF sdl.defs[i].keyword = "extendType"
          THEN [sdl.defs[i] EXCEPT !.keyword = "type"]
          ELSE sdl.defs[i]]]

\* the source holds an extension node named as a base definition of the
\* receiver that has fields
ExtensionOfBase ==
  \E i \in 1..Len(ThisDefs), j \in 1..Len(SourceDefs) :
    /\ ThisDefs[i].name = SourceDefs[j].name
    /\ ThisDefs[i].kind = "ObjectTypeDefinition"
    /\ SourceDefs[j].kind = "ObjectTypeExtension"

\* C11: when the source holds an extension node named as a base definition of
\* the receiver, mergeSDL returns, and returns the document that merging the
\* source with the extension written as a base definition returns.
C11_ExtensionFolding ==
  (call.op = "mergeSDL" /\ ExtensionOfBase) =>
    LET asBase == mergeSDL(this, WrittenAsBase(call.source),
                           call.conflictResolvers, DefaultConflictResolvers)
    IN  /\ Returned
        /\ asBase.error = "none"
        /\ ret.value.sdl = asBase.merged.sdl

\* C11 witness: an extension brought a new field into the base definition of
\* its name
C11_Witness ==
  /\ call.op = "mergeSDL" /\ ExtensionOfBase /\ Returned
  /\ \E i \in 1..Len(ThisDefs), m \in 1..Len(RetDefs) :
       /\ ThisDefs[i].name = RetDefs[m].name
       /\ RetDefs[m].kind = "ObjectTypeDefinition"
       /\ Names(RetDefs[m].fields) \ Names(ThisDefs[i].fields) # {}

\* the source is an empty document: a text with no definition in it
SourceIsEmptyDocument == call.source \in {BlankText, EmptyString}

\* C12: merging a document with the empty document succeeds and returns a
\* document with the same definitions, in the same order, with the same
\* sub-nodes.
C12_Identity ==
  (call.op = "mergeSDL" /\ SourceIsEmptyDocument) =>
    /\ Returned
    /\ RetDefs = ThisDefs

\* a source node as the merge and the pare engines see it: an extension
\* carries the kind of the definition it extends
Normalized(node) ==
  IF endsWithExtension(node.kind)
    THEN [node EXCEPT !.kind = asDefinitionKind(@)]
    ELSE node

\* the source definitions whose names do not occur in the receiver
NewSourceDefs ==
  SelectSeq(SourceDefs, LAMBDA d : d.name \notin Names(ThisDefs))

\* C13: the document mergeSDL returns holds a definition for every definition
\* of the receiver, in the receiver's order, followed by the source
\* definitions whose names the receiver does not have, in source order.
C13_MergeKeepsAndAppends ==
  (call.op = "mergeSDL" /\ Returned) =>
    /\ Len(RetDefs) = Len(ThisDefs) + Len(NewSourceDefs)
    /\ \A i \in 1..Len(ThisDefs) : RetDefs[i].name = ThisDefs[i].name
    /\ \A j \in 1..Len(NewSourceDefs) :
         RetDefs[Len(ThisDefs) + j] = Normalized(NewSourceDefs[j])

\* C13 witness: a merge returned that kept a definition and appended two
C13_Witness ==
  /\ call.op = "mergeSDL" /\ Returned
  /\ ThisDefs # <<>>
  /\ Len(NewSourceDefs) >= 2

\* the invocations of the fieldMergeResolver the call supplied that were made
\* for type T with the left field lf and the right field rf
SuppliedFieldResolverCalls(T, S, lf, rf) ==
  {c \in 1..Len(ret.calls) :
     /\ ret.calls[c].resolver = "fieldMergeResolver"
     /\ ret.calls[c].fn = call.conflictResolvers["fieldMergeResolver"]
     /\ ret.calls[c].lType = T /\ ret.calls[c].rType = S
     /\ ret.calls[c].lSubType = lf /\ ret.calls[c].rSubType = rf}

\* the pairs <<p, l, k>>: field l of the receiver's type and field k of the
\* same-named source type p have one name
CollidingFields ==
  UNION {UNION {{<<p, l, k>> : k \in Named(SourceDefs[p[2]].fields,
                                           ThisDefs[p[1]].fields[l].name)}
                : l \in 1..Len(ThisDefs[p[1]].fields)}
         : p \in SameNamedObjects}

\* C14: in a mergeSDL call that supplies a fieldMergeResolver, that resolver
\* is invoked once for every field name the two same-named types share, with
\* the target type, its field, the source type and its field, and it is
\* invoked for nothing else.
C14_ResolverInvocationCount ==
  (call.op = "mergeSDL"
     /\ "fieldMergeResolver" \in DOMAIN call.conflictResolvers) =>
    /\ \A q \in CollidingFields :
         Cardinality(SuppliedFieldResolverCalls(
           ThisDefs[q[1][1]].name, SourceDefs[q[1][2]].name,
           ThisDefs[q[1][1]].fields[q[2]],
           SourceDefs[q[1][2]].fields[q[3]])) = 1
    /\ Cardinality({c \in 1..Len(ret.calls) :
                      ret.calls[c].resolver = "fieldMergeResolver"})
         = Cardinality(CollidingFields)

\* C14 witness: a call with a supplied field resolver met a field name on
\* both sides, one on the left side only and one on the right side only
C14_Witness ==
  /\ call.op = "mergeSDL" /\ Returned
  /\ "fieldMergeResolver" \in DOMAIN call.conflictResolvers
  /\ \E q \in CollidingFields :
       /\ ret.calls # <<>>
       /\ Names(SourceDefs[q[1][2]].fields) \ Names(ThisDefs[q[1][1]].fields) # {}
       /\ Names(ThisDefs[q[1][1]].fields) \ Names(SourceDefs[q[1][2]].fields) # {}

\* C15: the document pareSDL returns ends with the source definitions whose
\* names the receiver does not have, in source order, after what is left of
\* the receiver's own definitions.
C15_PareReAddsUnknown ==
  (call.op = "pareSDL" /\ Returned) =>
    LET n == Len(NewSourceDefs)
        m == Len(RetDefs)
    IN  /\ m >= n
        /\ \A j \in 1..n : RetDefs[m - n + j] = Normalized(NewSourceDefs[j])
        /\ \A k \in 1..(m - n) : RetDefs[k].name \in Names(ThisDefs)

\* C15 witness: a pare returned a document that keeps a definition of the
\* receiver and ends with a definition only the source had
C15_Witness ==
  /\ call.op = "pareSDL" /\ Returned
  /\ NewSourceDefs # <<>>
  /\ Len(RetDefs) > Len(NewSourceDefs)

\* the schema argument of a mergeSchema call is a schema (not a falsy value)
SchemaGiven == call.op = "mergeSchema" /\ call.source \notin FalsySources

\* C16: in mergeSchema(schema, conflictResolvers) a field defined by both the
\* receiver and the schema ends up as the supplied fieldMergeResolver decides
\* (a resolver returning the left field keeps the existing field), and as the
\* schema defines it when no resolver is supplied.
C16_MergeSchemaHonoursResolvers ==
  (SchemaGiven /\ Returned) =>
    \A q \in CollidingFields :
      LET lType == ThisDefs[q[1][1]]
          rType == SourceDefs[q[1][2]]
          fn    == IF "fieldMergeResolver" \in DOMAIN call.conflictResolvers
                     THEN call.conflictResolvers["fieldMergeResolver"]
                     ELSE "DefaultFieldMergeResolver"
      IN  \E m \in Named(RetDefs, lType.name) :
            \E f \in Named(RetDefs[m].fields, lType.fields[q[2]].name) :
              RetDefs[m].fields[f] =
                CallResolver(fn, lType, lType.fields[q[2]],
                             rType, rType.fields[q[3]])

\* the [type][field] entries of a resolver map, as <<type, field>> pairs
Entries(map) ==
  IF map = Null THEN {}
  ELSE UNION {{<<T, f>> : f \in DOMAIN map.types[T]} : T \in DOMAIN map.types}

\* the resolvers found on the fields of the schema argument
SchemaResolvers == stripResolversFromSchema(call.source)

\* the <<type, field>> pairs of the fields the receiver's text defines
FieldsOfThis ==
  UNION {{<<ThisDefs[i].name, ThisDefs[i].fields[k].name>> :
            k \in 1..Len(ThisDefs[i].fields)} : i \in 1..Len(ThisDefs)}

\* the map of the returned Schemata holds each of the given entries of the
\* receiver's map, and each entry of the schema argument; where both have an
\* entry, the schema's function is the one kept
KeepsResolvers(ofThis) ==
  LET m == ret.value.resolvers
  IN  /\ m # Null
      /\ \A p \in Entries(SchemaResolvers) :
           /\ HasResolver(m, p[1], p[2])
           /\ m.types[p[1]][p[2]] = SchemaResolvers.types[p[1]][p[2]]
      /\ \A p \in ofThis \ Entries(SchemaResolvers) :
           /\ HasResolver(m, p[1], p[2])
           /\ m.types[p[1]][p[2]] = call.thisResolvers.types[p[1]][p[2]]

\* C17 as stated: the Schemata mergeSchema returns carries every [type][field]
\* resolver of the receiver and of the schema argument, the schema's entry
\* being kept where both define one.
C17_EveryResolverKept ==
  (SchemaGiven /\ Returned) => KeepsResolvers(Entries(call.thisResolvers))

\* C17 amended: the Schemata mergeSchema returns carries every [type][field]
\* resolver of the schema argument and every [type][field] resolver of the
\* receiver whose field the receiver's text defines, the schema's entry being
\* kept where both define one.
C17_ResolversOfDefinedFieldsKept ==
  (SchemaGiven /\ Returned) =>
    KeepsResolvers(Entries(call.thisResolvers) \cap FieldsOfThis)

\* C17 witness: a mergeSchema returned where the receiver and the schema both
\* had a resolver for one field, and the receiver one for another field
C17_Witness ==
  /\ SchemaGiven /\ Returned
  /\ Entries(call.thisResolvers) \cap FieldsOfThis
       \cap Entries(SchemaResolvers) # {}
  /\ (Entries(call.thisResolvers) \cap FieldsOfThis)
       \ Entries(SchemaResolvers) # {}

C19_InvalidInputFailsFast ==
  [][(call'.op \in {"mergeSDL", "pareSDL", "mergeSchema"}
        /\ call'.source \in FalsySources) =>
       /\ ret'.error = "Error"
       /\ ret'.value = Null
       /\ ret'.calls = <<>>
       /\ ret'.resolverMap = call'.resolverMap
       /\ this' = this
       /\ DefaultConflictResolvers' = DefaultConflictResolvers]_vars

\* C19 witness: each of the three operations has thrown on a falsy source;
\* here pareSDL, on an instance that holds resolvers, with a map passed
C19_Witness ==
  /\ call.op = "pareSDL" /\ call.source \in FalsySources
  /\ ret.error = "Error"
  /\ this.resolvers # Null /\ call.resolverMap # Null

\* the closures SchemaInjector put in the resolver list
Injectors == {this.listing[i] : i \in {j \in 1..Len(this.listing) :
                                         this.listing[j].name = "SchemaInjector"}}

\* the calls of the original resolver in the log of the last invocation
OriginalCalls == {i \in 1..Len(ret.log) : ret.log[i].fn = this.original}

\* C20: a resolver built by SchemaInjector(original, newSchema), invoked with
\* (source, args, context, info) where info.schema is set, or with three
\* arguments where context.schema is set, has replaced that schema by
\* newSchema in the argument the original resolver is called with.
C20_SchemaInjected ==
  (call.op = "apply" /\ ret.error = "none") =>
    \A fn \in Injectors : \A i \in OriginalCalls :
      LET n == Len(call.args)
      IN  /\ (n = 4 /\ schemaOf(call.args[4]) # "none") =>
               schemaOf(ret.log[i].argv[4]) = fn.newSchema
          /\ (n = 3 /\ schemaOf(call.args[3]) # "none") =>
               schemaOf(ret.log[i].argv[3]) = fn.newSchema

\* the functions handed to one of prepend, append and push, in call order
AddedBy(op) ==
  LET by(e) == e.op = op
      picked == SelectSeq(added, by)
  IN  [i \in 1..Len(picked) |-> picked[i].fn]

Reversed(seq) == [i \in 1..Len(seq) |-> seq[Len(seq) + 1 - i]]

IsResolver == "listing" \in DOMAIN this

\* the list the calls made so far are said to give, and the place of the
\* original in it
ShapedAsAdded ==
  /\ this.listing = AddedBy("prepend") \o <<this.original>>
                       \o Reversed(AddedBy("append")) \o AddedBy("push")
  /\ originalIndex(this) = Len(AddedBy("prepend"))

\* the original resolver itself was handed to prepend, append or push
OriginalAdded == \E i \in 1..Len(added) : added[i].fn = this.original

Invoked == IsResolver /\ call.op = "apply"

\* `results` as the chain holds it before call i of the last invocation
ResultsBefore(i) == IF i = 1 THEN EmptyObject ELSE ret.log[i - 1].results

\* the first Len(ret.log) entries of the list were called, one call each, in
\* list order, with the call's arguments followed by the results so far
CalledInOrder ==
  /\ Len(ret.log) <= Len(this.listing)
  /\ \A i \in 1..Len(ret.log) :
        /\ ret.log[i].fn = this.listing[i]
        /\ ret.log[i].argv = call.args \o <<ResultsBefore(i)>>

KeysBefore(i) ==
  UNION {DOMAIN ret.log[j].result \ {"object"} :
           j \in {k \in 1..(i - 1) : ret.log[k].result # Null}}

\* the calls of the last invocation that returned undefined or null
SilentCalls == {i \in 1..Len(ret.log) : ret.log[i].result = Null}

\* C29: when a resolver of the list returns undefined or null, the value of
\* the call still holds what the resolvers before it returned.
C29_SilentKeepsResults ==
  (Invoked /\ ret.error = "none" /\ this.patcher = Null) =>
    \A i \in SilentCalls : \A k \in KeysBefore(i) :
      ret.value # Null /\ k \in DOMAIN ret.value

\* C30: wrap(original, prepends, appends) builds the list prepends, in the
\* order of the array, then the original, then appends in the order of the
\* array.
C30_WrapKeepsOrder ==
  (IsResolver /\ call.op = "wrap") =>
    this.listing = call.args[1] \o <<call.fn>> \o call.args[2]

\* C23: buildResolvers returns a resolver map and does not throw, whatever
\* the flag and the instance.
C23_BuildResolversNeverThrows ==
  call.op = "buildResolvers" => (ret.error = "none" /\ ret.value # Null)

\* C24: after new ExtendedResolverMap(config) or ExtendedResolverMap.from(config)
\* the instance's schema, sdl and resolvers are config.schema, config.sdl and
\* config.resolvers.
C24_StoresConfig ==
  call.op \in {"new", "from"} =>
    /\ this.schema = call.config.schema
    /\ this.sdl = call.config.sdl
    /\ this.resolvers = call.config.resolvers

\* C25: when a type of the receiver with several directives meets a
\* same-named source type, mergeSDL puts the resolver's result (by default
\* the source's directive) at the position of the left directive of the same
\* name and leaves every other directive of the type where and as it was.
C25_DirectiveReplacedInPlace ==
  (call.op = "mergeSDL" /\ Returned) =>
    \A p \in SameNamedObjects :
      LET lType  == ThisDefs[p[1]]
          rType  == SourceDefs[p[2]]
          merged == RetDefs[p[1]]
      IN  Len(lType.directives) >= 2 =>
            \A i \in 1..Len(lType.directives) :
              /\ i <= Len(merged.directives)
              /\ LET same == Named(rType.directives, lType.directives[i].name)
                 IN  IF same = {}
                       THEN merged.directives[i] = lType.directives[i]
                       ELSE \E k \in same :
                              merged.directives[i] = rType.directives[k]

\* no two elements of the sequence carry one name
DistinctNames(seq) ==
  \A i, j \in 1..Len(seq) : seq[i].name = seq[j].name => i = j

\* names are unique at the top level of a document and within every
\* collection of every definition
UniqueNames(defs) ==
  /\ DistinctNames(defs)
  /\ \A i \in 1..Len(defs) :
        /\ DistinctNames(defs[i].fields)
        /\ DistinctNames(defs[i].directives)
        /\ DistinctNames(defs[i].values)
        /\ DistinctNames(defs[i].types)

\* C26: when names are unique in the receiver's document and in the source,
\* they are unique in the document a mergeSDL call with the default
\* resolvers returns, whatever calls came before.
C26_NamesStayUnique ==
  (call.op = "mergeSDL" /\ Returned /\ everSupplied = {}
     /\ UniqueNames(ThisDefs) /\ UniqueNames(SourceDefs)) =>
    UniqueNames(RetDefs)

\* the elements of a sequence whose names are not in a set, in their order
NotNamed(seq, names) ==
  LET keep(x) == x.name \notin names
  IN  SelectSeq(seq, keep)

\* C27: for a type with fields in both documents that pareSDL leaves in the
\* document, the fields and the directives that remain are exactly those of
\* the receiver's type whose names the source type's collection does not
\* have, in their order.
C27_PareRemovesExactlyMatching ==
  (call.op = "pareSDL" /\ Returned) =>
    \A p \in SameNamedObjects :
      LET lType == ThisDefs[p[1]]
          rType == SourceDefs[p[2]]
      IN  \A m \in Named(RetDefs, lType.name) :
            /\ RetDefs[m].fields = NotNamed(lType.fields, Names(rType.fields))
            /\ RetDefs[m].directives =
                 NotNamed(lType.directives, Names(rType.directives))

\* field f of the receiver's type T is not in the returned document
FieldRemoved(T, f) ==
  /\ \E i \in Named(ThisDefs, T) : f \in Names(ThisDefs[i].fields)
  /\ \A m \in Named(RetDefs, T) : f \notin Names(RetDefs[m].fields)

\* the [type][field] entries and the top-level function entries of a map
NestedEntries(map) ==
  IF map = Null THEN {}
  ELSE UNION {{<<T, f>> : f \in DOMAIN map.types[T]} : T \in DOMAIN map.types}

RootEntries(map) == IF map = Null THEN {} ELSE DOMAIN map.roots

\* C28: an entry of the copied resolver map that is missing from the map of
\* the returned Schemata is the resolver of a field this call removed: a
\* [type][field] entry of a removed field of that type, or a top-level entry
\* named as a removed field of Query, Mutation or Subscription.
C28_PareDeletesOnlyRemovedFields ==
  (call.op = "pareSDL" /\ Returned) =>
    /\ \A e \in NestedEntries(MapBefore) \ NestedEntries(ret.value.resolvers) :
         FieldRemoved(e[1], e[2])
    /\ \A k \in RootEntries(MapBefore) \ RootEntries(ret.value.resolvers) :
         \E R \in {"Query", "Mutation", "Subscription"} : FieldRemoved(R, k)

====
